---- MODULE Spec2Model ----
(***************************************************************************)
(* State-machine model of the data-acquisition scripts of the repository:  *)
(*   - backend/fetch_qdii_report.py   (fund-disclosure scraper)            *)
(*   - backend/fetch_etf_to_postgresql.py / fetch_etf_to_dynamodb.py       *)
(* Each script is a sequential program; its position is a pc variable and  *)
(* every answer of the outside world (HTTP, database) is a nondeterministic*)
(* choice.                                                                 *)
(***************************************************************************)
EXTENDS Integers, Sequences, FiniteSets, TLC

(***************************************************************************)
(* Bounds of the model.                                                    *)
(***************************************************************************)
\* largest number of full pages the API announces beyond the first record
MaxPages == 1
\* largest number of records in one page of the answer
MaxPageLen == 1
\* the per-offset request counter (history variable) saturates here
RequestCap == 7
\* share classes of one announcement
MaxFunds == 2
\* begin dates are the days 1..MaxDate
MaxDate == 2
\* the ETF tickers are 1..MaxTickers
MaxTickers == 3
\* items per write batch; the scripts use 25 (postgresql line 25, dynamodb
\* line 29), scaled down so that MaxTickers items make several batches
BATCH_SIZE == 2
\* items in one page of a DynamoDB scan (the 1 MB limit of a page)
ScanPageItems == 2
\* ETFs given to the market statistics
MaxEtfs == 3
\* items in a scraped list given to compare_constituents
MaxListLen == 2
\* symbols given to fetch_batch_stock_data
MaxSymbols == 5
\* symbols per yfinance batch; fetch_us_index_constituents.py uses 50 (lines
\* 492 and 618), scaled down so that MaxSymbols symbols make several batches
batch_size == 2
\* significant binary digits of a float; 53 in Python, scaled down so that
\* sums of the small AUM values of the model are rounded
FloatDigits == 3
\* trading days given to backtest_strategy
MaxDays == 2
\* closes are the whole amounts 1..MaxClose
MaxClose == 3
\* the capital of the backtest in whole units; mag7_backtest.py uses 100000
\* (line 27), scaled down to a few units per position
INITIAL_CAPITAL == 8
\* ETFs given to save_gainers_and_losers
MaxGlEtfs == 3
\* gainers and losers kept per period; fetch_etf_to_postgresql.py keeps 50
\* (lines 389-390), scaled down so that MaxGlEtfs ETFs exceed it
TopCount == 2

(***************************************************************************)
(* fetch_qdii_report.py : constants                                        *)
(***************************************************************************)
\* Python's None, for total_records and page_data (counts are >= 0)
None == -1
display_length == 20
max_retries == 5

RECURSIVE Pow2(_)
Pow2(n) == IF n = 0 THEN 1 ELSE 2 * Pow2(n - 1)

\* line 188: wait_time = 2 ** retry_count * 5
wait_time(rc) == Pow2(rc) * 5

\* values of iTotalRecords the API may report
TotalChoices == {0, 1} \cup {k * display_length + 1 : k \in 1..MaxPages}

\* the ways one request attempt fails (lines 220-231, 246-254)
FailKinds == {"http_status", "api_error", "timeout", "request_error", "unexpected"}

VARIABLES
    pc,             \* position of the fund-disclosure script
    start,          \* iDisplayStart of the page being fetched
    total_records,  \* None until a page succeeded
    retry_count,    \* failed attempts of the current retry loop
    page_data,      \* None, or the number of records of the page just read
    all_data,       \* number of records accumulated
    waits,          \* sleeps of the current retry loop, in seconds
    reqs,           \* history: requests issued for the current offset
    sawEmpty        \* history: a successful page had an empty aaData

fetchVars == <<start, total_records, retry_count, page_data, all_data, waits,
               reqs, sawEmpty>>

\* fetch_qdii_report.py, __main__
VARIABLES
    announcements,  \* number of announcements returned by the fetch
    total_expected, \* total_records as returned by the fetch
    idx,            \* the announcement being processed (1-based)
    funds_left,     \* share classes of that announcement still to process
    success_count,
    failed_count,
    holiday_count,
    fund_quota,     \* the committed rows of the table
    txn_table,      \* the rows as the open transaction shows them
    txn_aborted,    \* the transaction is in the failed state
    applied,        \* history: the table after the upserts that returned True
    pings,          \* statuses handed to ping_healthchecks, in order
    emails,         \* alerts handed to send_alert_email, in order
    exit_code       \* None while running

mainVars == <<announcements, total_expected, idx, funds_left, success_count,
              failed_count, holiday_count, fund_quota, txn_table, txn_aborted,
              applied, pings, emails, exit_code>>

dbVars == <<fund_quota, txn_table, txn_aborted, applied>>
countVars == <<success_count, failed_count, holiday_count>>

VARIABLES
    variant,           \* "pg" or "ddb": which of the two ETF scripts runs
    epc,               \* position in main() of the ETF script
    ETFData,           \* tickers stored in the ETFData / etf_data table
    ETFData_at_start,  \* history: ETFData when main() was called
    DelistedETFs,      \* tickers stored in the delisted table
    existing_tickers,  \* main(): result of fetch_existing_etf_tickers
    etf_data,          \* main(): tickers of the API answer
    pg_aborted,        \* the PostgreSQL transaction is in the aborted state
    batch_num,         \* batch_write_to_dynamodb: number of the next batch
    etf_success_count, \* batch write: success_count
    error_count,       \* batch write: error_count
    failed_batches,    \* history: batches whose write raised
    batches_run,       \* history: batches that were sent
    retried,           \* history: items put one by one after a failed batch
    bw_done,           \* history: the batch write function has ended
    steps_failed,      \* history: steps of main() that failed
    hc,                \* healthcheck pings requested, in order
    undelivered,       \* pings whose request raised
    ext_before_start,  \* history: an external action preceded the start ping
    ext_after_term,    \* history: external actions after the terminal ping
    conn_open,         \* postgresql main(): conn is an open connection
    rc                 \* return value of main(), None while it runs

etfVars == <<variant, epc, ETFData, ETFData_at_start, DelistedETFs, existing_tickers, etf_data,
             pg_aborted, batch_num, etf_success_count, error_count,
             failed_batches, batches_run, retried, bw_done, steps_failed, hc,
             undelivered, ext_before_start, ext_after_term, conn_open, rc>>

VARIABLES
    stat_variant,   \* "pg" or "ddb": which script computes the statistics
    stats,          \* the stats dictionary being accumulated
    etfs_seen,      \* history: number of ETFs the loop has processed
    aum_sum,        \* history: exact sum of the AUM values that were added
    last_ratio,     \* history: expenseRatio of the ETF processed last
    last_bucket     \* history: expense-ratio key incremented last

statVars == <<stat_variant, stats, etfs_seen, aum_sum, last_ratio, last_bucket>>

VARIABLES
    cmp_slick,      \* compare_constituents: slickcharts_data
    cmp_stock,      \* compare_constituents: stockanalysis_data
    cmp_done,       \* compare_constituents has returned
    cmp_result      \* its return value

cmpVars == <<cmp_slick, cmp_stock, cmp_done, cmp_result>>

VARIABLES
    yf_caller,        \* the function that was called
    ypc,              \* position in it
    use_proxy,        \* its argument use_proxy
    environ,          \* os.environ: the proxy variables that are set
    symbols,          \* fetch_batch_stock_data: symbols
    ath_batch_size,   \* main(): value of --ath-batch-size
    ratio_batch_size, \* main(): value of --ratio-batch-size
    yf_batch_num,     \* fetch_batch_stock_data: batch_num
    ath_batches,      \* history: the ATH batches that were downloaded
    ratio_batches,    \* history: the ratios batches that were downloaded
    yf_result         \* what the function returned

yfVars == <<yf_caller, ypc, use_proxy, environ, symbols, ath_batch_size,
            ratio_batch_size, yf_batch_num, ath_batches, ratio_batches, yf_result>>

VARIABLES
    ipc,                  \* position in main() of fetch_us_index_constituents.py
    index_table,          \* items of the index in the DynamoDB table, by symbol
    symbols_at_start,     \* history: symbols stored before the run
    existing_data,        \* main(): existing_data of the index, by symbol
    existing_after_step2, \* history: existing_data when step 2 ended
    updated_data,         \* main(): updated_data of the index, by symbol
    scraped_symbols,      \* symbols of the SlickCharts scrape
    steps_raised          \* history: steps in which something failed

ixVars == <<ipc, index_table, symbols_at_start, existing_data,
            existing_after_step2, updated_data, scraped_symbols, steps_raised>>

VARIABLES
    bpc,              \* position in backtest_strategy
    bt_data,          \* data: close of every ticker on every date
    drop_threshold,   \* drop_threshold, in percent
    bt_date,          \* date of the outer loop
    ticker_i,         \* position of the inner loop in MAG7_TICKERS
    portfolio,        \* portfolio
    cash,             \* cash
    daily_value,      \* daily_value
    portfolio_values, \* portfolio_values
    trades            \* trades, with the shares and the cash before the buy

btVars == <<bpc, bt_data, drop_threshold, bt_date, ticker_i, portfolio, cash,
            daily_value, portfolio_values, trades>>

VARIABLES
    gpc,                  \* position in save_gainers_and_losers
    gl_etf_data,          \* etf_data
    all_etfs,             \* all_etfs
    period_i,             \* position of the loop in periods
    gainers_losers_items, \* gainers_losers_items
    gainer_losers,        \* rows of the table gainer_losers
    gl_returned           \* the value returned

glVars == <<gpc, gl_etf_data, all_etfs, period_i, gainers_losers_items,
            gainer_losers, gl_returned>>

VARIABLES
    tpc,              \* position in test_chrome_setup
    site_i,           \* position of the loop in test_sites
    strategy_i,       \* position of the loop in strategies
    success,          \* success of the site being tested
    attempts,         \* history: how the strategies tried for the site ended
    sites_failed,     \* history: sites for which every strategy failed
    driver_created,   \* history: webdriver.Chrome returned
    printed,          \* the verdicts printed
    ts_returned,      \* what test_chrome_setup returned
    ts_exit_code      \* the exit code of the process

tsVars == <<tpc, site_i, strategy_i, success, attempts, sites_failed,
            driver_created, printed, ts_returned, ts_exit_code>>

VARIABLES
    last_outcome,     \* history: what the last upsert_record of UpsertCall did
    last_ok           \* history: the first element of the pair it returned

upsertHist == <<last_outcome, last_ok>>

\* the state of the scripts other than fetch_qdii_report.py and the ETF sync,
\* and the history of the upsert calls
restVars == <<statVars, cmpVars, yfVars, ixVars, btVars, upsertHist, glVars, tsVars>>

\* what the actions of one script leave alone among these
othersOfStat == <<cmpVars, yfVars, ixVars, btVars, upsertHist, glVars, tsVars>>
othersOfCmp == <<statVars, yfVars, ixVars, btVars, upsertHist, glVars, tsVars>>
othersOfYf == <<statVars, cmpVars, ixVars, btVars, upsertHist, glVars, tsVars>>
othersOfIx == <<statVars, cmpVars, yfVars, btVars, upsertHist, glVars, tsVars>>
othersOfBt == <<statVars, cmpVars, yfVars, ixVars, upsertHist, glVars, tsVars>>
othersOfUpsert == <<statVars, cmpVars, yfVars, ixVars, btVars, glVars, tsVars>>
othersOfGl == <<statVars, cmpVars, yfVars, ixVars, btVars, upsertHist, tsVars>>
othersOfTs == <<statVars, cmpVars, yfVars, ixVars, btVars, upsertHist, glVars>>

\* history only: one more request for the current offset (saturating)
CountRequest == IF reqs < RequestCap THEN reqs + 1 ELSE reqs

\* lines 168-171
FetchInit ==
    /\ start = 0
    /\ total_records = None
    /\ retry_count = 0
    /\ page_data = None
    /\ all_data = 0
    /\ waits = << >>
    /\ reqs = 0
    /\ sawEmpty = FALSE

\* line 179: the condition of the pagination loop, and lines 180-183
OuterLoop ==
    /\ pc = "outer"
    /\ IF total_records = None \/ start < total_records
       THEN /\ retry_count' = 0
            /\ page_data' = None
            /\ waits' = << >>
            /\ pc' = "inner"
       ELSE /\ pc' = "fetch_ret"
            /\ UNCHANGED <<retry_count, page_data, waits>>
    /\ UNCHANGED <<start, total_records, all_data, reqs, sawEmpty>>
    /\ UNCHANGED mainVars
    /\ UNCHANGED <<etfVars, restVars>>

\* line 185: the condition of the retry loop
InnerCond == retry_count < max_retries /\ page_data = None

\* lines 186-190: the sleep before a retry
WaitsAfterSleep == IF retry_count > 0 THEN Append(waits, wait_time(retry_count)) ELSE waits

\* lines 192-254, one attempt that fails: the counter goes up and the loop goes on
AttemptFails ==
    /\ pc = "inner"
    /\ InnerCond
    /\ \E kind \in FailKinds :
          /\ retry_count' = retry_count + 1
          /\ waits' = WaitsAfterSleep
          /\ reqs' = CountRequest
          /\ pc' = "inner"
    /\ UNCHANGED <<start, total_records, page_data, all_data, sawEmpty>>
    /\ UNCHANGED mainVars
    /\ UNCHANGED <<etfVars, restVars>>

\* lines 233-235
TotalAfter(t) == IF total_records = None THEN t ELSE total_records

\* lines 192-244, one attempt that is answered with status 200 and success:
\* t is iTotalRecords, n the length of aaData (None for a JSON null)
AttemptSucceeds ==
    /\ pc = "inner"
    /\ InnerCond
    /\ \E t \in TotalChoices, n \in {None} \cup (0..MaxPageLen) :
          /\ total_records' = TotalAfter(t)
          /\ page_data' = n
          /\ waits' = WaitsAfterSleep
          /\ IF n = None \/ n = 0
             THEN \* lines 238-240: "assuming end of results", break
                  /\ pc' = "after_inner"
                  /\ reqs' = CountRequest
                  /\ sawEmpty' = (sawEmpty \/ n = 0)
                  /\ UNCHANGED <<all_data, start>>
             ELSE \* lines 242-244
                  /\ all_data' = all_data + n
                  /\ start' = start + display_length
                  /\ reqs' = 0
                  /\ pc' = "inner"
                  /\ UNCHANGED sawEmpty
    /\ UNCHANGED retry_count
    /\ UNCHANGED mainVars
    /\ UNCHANGED <<etfVars, restVars>>

\* line 185 false: the retry loop is left
InnerExit ==
    /\ pc = "inner"
    /\ ~InnerCond
    /\ pc' = "after_inner"
    /\ UNCHANGED fetchVars
    /\ UNCHANGED mainVars
    /\ UNCHANGED <<etfVars, restVars>>

\* lines 256-260
AfterInner ==
    /\ pc = "after_inner"
    /\ pc' = IF page_data = None THEN "fetch_ret" ELSE "outer"
    /\ UNCHANGED fetchVars
    /\ UNCHANGED mainVars
    /\ UNCHANGED <<etfVars, restVars>>

(***************************************************************************)
(* fetch_qdii_report.py : the fund_quota table and upsert_record           *)
(***************************************************************************)
\* fund codes: the 6-digit ones are valid (line 55), "12AB" is not
Codes == {"000001", "000002"}
BadCode == "12AB"
Names == {"FundA", "FundC"}
\* a manager name is <<stem, suffix>>; the suffixes of lines 74-78 are removed
CompanySuffixes == {"FundManagementCoLtd", "FundManagementJointStockCoLtd"}
Companies == {<<"CoX", "FundManagementCoLtd">>, <<"CoY", "">>}
\* quota texts of the announcement table
QuotaTexts == {"N/A", "1,000"}
\* begin_date as a day number, 0 standing for a text strptime rejects (line 68)
BadDate == 0
Dates == 1..MaxDate
\* uploadInfoId values
PdfIds == {101, 102}

\* lines 59-64: "N/A", "-" and "" give 0.0, the commas are removed, and a text
\* float() rejects gives 0.0
quota_val(quota) ==
    CASE quota \in {"N/A", "-", ""} -> 0
      [] quota = "1,000" -> 1000
      [] quota = "100" -> 100
      [] OTHER -> 0

\* lines 74-78
clean_company(c) == IF c[2] \in CompanySuffixes THEN c[1] ELSE c[1] \o c[2]

\* line 55
ValidCode(code) == code \in Codes

\* lines 67-71
ValidDate(d) == d \in Dates

\* a row of fund_quota; share_class and currency are functions of fund_name
\* (lines 79-93) and otc is the constant of line 101, so they are left out
Row(code, name, company, quota, pdf, date) ==
    [fund_code |-> code, fund_name |-> name, fund_company |-> company,
     quota |-> quota, pdf_id |-> pdf, effective_date |-> date]

\* the statement without its WHERE clause
UpsertSQLWithoutWhere(table, new) ==
    IF \E old \in table : old.fund_name = new.fund_name
    THEN { IF old.fund_name = new.fund_name
           THEN [old EXCEPT !.fund_company = new.fund_company,
                            !.quota = new.quota,
                            !.pdf_id = new.pdf_id,
                            !.effective_date = new.effective_date]
           ELSE old : old \in table }
    ELSE table \cup {new}

\* lines 97-110: INSERT ... ON CONFLICT (fund_name) DO UPDATE SET ... WHERE
\* EXCLUDED.effective_date >= fund_quota.effective_date
UpsertSQL(table, new) ==
    IF \E old \in table : old.fund_name = new.fund_name
    THEN { IF old.fund_name = new.fund_name
              /\ new.effective_date >= old.effective_date
           THEN [old EXCEPT !.fund_company = new.fund_company,
                            !.quota = new.quota,
                            !.pdf_id = new.pdf_id,
                            !.effective_date = new.effective_date]
           ELSE old : old \in table }
    ELSE table \cup {new}

\* lines 52-119: upsert_record on a connection whose transaction shows `table`
\* and is aborted or not; dbfail: cur.execute raises. The result is the pair
\* returned (only ok), the table the transaction shows afterwards and whether
\* the transaction is aborted (no rollback in the except of line 117)
upsert_record(table, aborted, code, name, company, quota, date, pdf, dbfail) ==
    IF ~ValidCode(code) \/ ~ValidDate(date)
    THEN [ok |-> FALSE, table |-> table, aborted |-> aborted]
    ELSE IF aborted \/ dbfail
    THEN [ok |-> FALSE, table |-> table, aborted |-> TRUE]
    ELSE [ok |-> TRUE,
          table |-> UpsertSQL(table, Row(code, name, clean_company(company),
                                         quota_val(quota), pdf, date)),
          aborted |-> FALSE]

(***************************************************************************)
(* fetch_qdii_report.py : __main__                                         *)
(***************************************************************************)
\* lines 267-271
MainInit ==
    /\ announcements = 0
    /\ total_expected = 0
    /\ idx = 0
    /\ funds_left = 0
    /\ success_count = 0
    /\ failed_count = 0
    /\ holiday_count = 0
    /\ fund_quota = {}
    /\ txn_table = {}
    /\ txn_aborted = FALSE
    /\ applied = {}
    /\ pings = << >>
    /\ emails = << >>
    /\ exit_code = None

\* lines 122-134: ping_healthchecks(status); it never raises
ping_healthchecks(status) == Append(pings, status)

\* lines 137-164: send_alert_email(subject, body); it never raises
send_alert_email(subject) == Append(emails, subject)

\* lines 273-277
CheckEnv ==
    /\ pc = "main"
    /\ \E DATABASE_URL \in BOOLEAN :
          IF ~DATABASE_URL
          THEN /\ pings' = ping_healthchecks("fail")
               /\ exit_code' = 1
               /\ pc' = "exit"
          ELSE /\ pc' = "connect"
               /\ UNCHANGED <<pings, exit_code>>
    /\ UNCHANGED <<announcements, total_expected, idx, funds_left, countVars,
                   dbVars, emails>>
    /\ UNCHANGED fetchVars
    /\ UNCHANGED <<etfVars, restVars>>

\* line 281: psycopg2.connect, which may raise
Connect ==
    /\ pc = "connect"
    /\ \E connected \in BOOLEAN :
          pc' = IF connected THEN "outer" ELSE "except"
    /\ UNCHANGED mainVars
    /\ UNCHANGED fetchVars
    /\ UNCHANGED <<etfVars, restVars>>

\* lines 285-286: the fetch returns (all_data, total_records)
FetchReturn ==
    /\ pc = "fetch_ret"
    /\ announcements' = all_data
    /\ total_expected' = total_records
    /\ idx' = 1
    /\ pc' = "process"
    /\ UNCHANGED <<funds_left, countVars, dbVars, pings, emails, exit_code>>
    /\ UNCHANGED fetchVars
    /\ UNCHANGED <<etfVars, restVars>>

\* what the processing of one announcement comes to before its funds loop:
\*   malformed : a key is missing, lines 289-292 raise outside the inner try
\*   skip      : no suspension, line 294
\*   failed    : lines 304-307, 314-317, 346-349, 358-363, 391-393
\*   holiday   : lines 342-344, 354-356
\*   funds     : the loop of line 369 is entered
ItemOutcomes == {"malformed", "skip", "failed", "holiday", "funds"}

\* lines 288-367, for announcement idx
ProcessItem ==
    /\ pc = "process"
    /\ idx <= announcements
    /\ \E o \in ItemOutcomes, n \in 1..MaxFunds :
          /\ pc' = CASE o = "malformed" -> "except"
                     [] o = "funds" -> "funds"
                     [] OTHER -> "process"
          /\ idx' = IF o \in {"skip", "failed", "holiday"} THEN idx + 1 ELSE idx
          /\ funds_left' = IF o = "funds" THEN n ELSE 0
          /\ failed_count' = IF o = "failed" THEN failed_count + 1 ELSE failed_count
          /\ holiday_count' = IF o = "holiday" THEN holiday_count + 1 ELSE holiday_count
    /\ UNCHANGED <<announcements, total_expected, success_count, dbVars, pings,
                   emails, exit_code>>
    /\ UNCHANGED fetchVars
    /\ UNCHANGED <<etfVars, restVars>>

\* what one share class of the funds loop comes to:
\*   nocode : lines 374-382, no usable code, continue
\*   upsert : line 384
\*   raise  : an exception inside the loop, caught at line 391
FundOutcomes == {"nocode", "upsert", "raise"}

\* lines 369-393, one iteration of the funds loop of announcement idx
ProcessFund ==
    /\ pc = "funds"
    /\ \E o \in FundOutcomes, code \in Codes, name \in Names, date \in Dates,
          dbfail \in BOOLEAN :
          LET r == upsert_record(txn_table, txn_aborted, code, name,
                                 <<"CoX", "FundManagementCoLtd">>, "1,000",
                                 date, idx, dbfail)
              last == (funds_left = 1 \/ o = "raise")
          IN  /\ funds_left' = IF last THEN 0 ELSE funds_left - 1
              /\ idx' = IF last THEN idx + 1 ELSE idx
              /\ pc' = IF last THEN "process" ELSE "funds"
              /\ IF o = "upsert"
                 THEN /\ txn_table' = r.table
                      /\ txn_aborted' = r.aborted
                      /\ applied' = IF r.ok THEN r.table ELSE applied
                      /\ success_count' = IF r.ok THEN success_count + 1 ELSE success_count
                      /\ failed_count' = IF r.ok THEN failed_count ELSE failed_count + 1
                 ELSE /\ failed_count' = IF o = "raise" THEN failed_count + 1 ELSE failed_count
                      /\ UNCHANGED <<txn_table, txn_aborted, applied, success_count>>
    /\ UNCHANGED <<announcements, total_expected, holiday_count, fund_quota, pings,
                   emails, exit_code>>
    /\ UNCHANGED fetchVars
    /\ UNCHANGED <<etfVars, restVars>>

\* line 399
Incomplete == announcements < total_expected \/ failed_count > 0

\* lines 396-417, after the loop: the comparison of line 399 raises a TypeError
\* when total_expected is None
SyncCompleted ==
    /\ pc = "process"
    /\ idx > announcements
    /\ IF total_expected = None
       THEN /\ pc' = "except"
            /\ UNCHANGED <<pings, emails>>
       ELSE /\ emails' = IF Incomplete THEN send_alert_email("incomplete") ELSE emails
            /\ pings' = ping_healthchecks("ok")
            /\ pc' = "with_exit"
    /\ UNCHANGED <<announcements, total_expected, idx, funds_left, countVars,
                   dbVars, exit_code>>
    /\ UNCHANGED fetchVars
    /\ UNCHANGED <<etfVars, restVars>>

\* line 281, leaving the with block without an exception: the connection
\* commits. COMMIT of a failed transaction rolls it back and raises nothing;
\* otherwise the commit succeeds or raises
WithExit ==
    /\ pc = "with_exit"
    /\ IF txn_aborted
       THEN /\ txn_table' = fund_quota
            /\ txn_aborted' = FALSE
            /\ exit_code' = 0
            /\ pc' = "end"
            /\ UNCHANGED fund_quota
       ELSE \E committed \in BOOLEAN :
               IF committed
               THEN /\ fund_quota' = txn_table
                    /\ exit_code' = 0
                    /\ pc' = "end"
                    /\ UNCHANGED <<txn_table, txn_aborted>>
               ELSE /\ pc' = "except"
                    /\ UNCHANGED <<fund_quota, txn_table, txn_aborted, exit_code>>
    /\ UNCHANGED <<announcements, total_expected, idx, funds_left, countVars,
                   applied, pings, emails>>
    /\ UNCHANGED fetchVars
    /\ UNCHANGED <<etfVars, restVars>>

\* lines 419-436, after the with block rolled the transaction back
ExceptHandler ==
    /\ pc = "except"
    /\ txn_table' = fund_quota
    /\ txn_aborted' = FALSE
    /\ pings' = ping_healthchecks("fail")
    /\ emails' = send_alert_email("critical")
    /\ exit_code' = 1
    /\ pc' = "exit"
    /\ UNCHANGED <<announcements, total_expected, idx, funds_left, countVars,
                   fund_quota, applied>>
    /\ UNCHANGED fetchVars
    /\ UNCHANGED <<etfVars, restVars>>

\* no call of upsert_record was made yet
NoCallYet == last_outcome = "none" /\ last_ok = FALSE

\* what a call does: it is rejected (lines 55-57, 67-71) or its statement
\* fails (line 117), or the statement inserts a row, finds a row with a
\* later effective_date ("stale"), or replaces the row
OutcomeOf(table, aborted, code, name, date, dbfail) ==
    IF ~ValidCode(code) \/ ~ValidDate(date) \/ aborted \/ dbfail THEN "failed"
    ELSE IF ~\E old \in table : old.fund_name = name THEN "inserted"
    ELSE IF \E old \in table : old.fund_name = name /\ date < old.effective_date
         THEN "stale"
    ELSE "replaced"

\* upsert_record (lines 52-119) called with these arguments on the connection
UpsertWith(code, name, company, quota, date, pdf, dbfail) ==
    LET r == upsert_record(txn_table, txn_aborted, code, name, company,
                           quota, date, pdf, dbfail)
    IN  /\ pc = "upsert"
        /\ txn_table' = r.table
        /\ txn_aborted' = r.aborted
        /\ last_outcome' = OutcomeOf(txn_table, txn_aborted, code, name, date, dbfail)
        /\ last_ok' = r.ok
        /\ UNCHANGED <<pc, announcements, total_expected, idx, funds_left,
                       countVars, fund_quota, applied, pings, emails, exit_code>>
        /\ UNCHANGED fetchVars
        /\ UNCHANGED etfVars
        /\ UNCHANGED othersOfUpsert

\* upsert_record called with arbitrary arguments on one connection
UpsertCall ==
    \E code \in Codes \cup {BadCode}, name \in Names, company \in Companies,
       quota \in QuotaTexts, date \in Dates \cup {BadDate}, pdf \in PdfIds,
       dbfail \in BOOLEAN :
       UpsertWith(code, name, company, quota, date, pdf, dbfail)

MainNext ==
    \/ CheckEnv \/ Connect \/ FetchReturn \/ ProcessItem \/ ProcessFund
    \/ SyncCompleted \/ WithExit \/ ExceptHandler

(***************************************************************************)
(* fetch_etf_to_postgresql.py and fetch_etf_to_dynamodb.py : main()        *)
(***************************************************************************)
Tickers == 1..MaxTickers

\* the items of etf_data in the order of etf_data.items(), here by ticker
RECURSIVE SetToSeq(_)
SetToSeq(S) ==
    IF S = {} THEN << >>
    ELSE LET m == CHOOSE x \in S : \A y \in S : x <= y
         IN  <<m>> \o SetToSeq(S \ {m})

\* dynamodb line 372: total_batches = (len(items) + BATCH_SIZE - 1) // BATCH_SIZE
total_batches(items) == (Len(items) + BATCH_SIZE - 1) \div BATCH_SIZE

\* dynamodb lines 374-375: batch = items[i:i + BATCH_SIZE], for the b-th batch
BatchItems(items, b) ==
    { items[k] : k \in { j \in 1..Len(items) :
                           (b - 1) * BATCH_SIZE < j /\ j <= b * BATCH_SIZE } }

\* one page of a DynamoDB scan of a table holding S: every item when they fit
\* in a page, else some ScanPageItems of them (the order is DynamoDB's)
ScanPages(S) ==
    IF Cardinality(S) <= ScanPageItems THEN {S}
    ELSE { P \in SUBSET S : Cardinality(P) = ScanPageItems }

\* the steps whose exception reaches the except clause of main()
\* (postgresql lines 592-607 and 634; dynamodb lines 819-847 and 874)
FatalSteps(v) ==
    IF v = "pg" THEN {"connect", "api", "upsert"}
    ELSE {"connect", "api", "delete_old", "upsert", "stats"}

\* the same helper without its try/except: an undelivered ping raises into
\* the except clause of main()
healthcheck_raises(delivered, next) == IF delivered THEN next ELSE "handler"

\* postgresql lines 105-129, dynamodb lines 63-87: the request is inside a
\* try whose except only logs, so main() goes on whether or not the ping
\* was delivered
healthcheck_next(delivered, next) == next

\* history: an external action (database, API, ping) of the given kind;
\* what comes after the terminal ping is recorded
ExtAfter(kind) ==
    IF \E i \in 1..Len(hc) : hc[i] \in {"success", "fail"}
    THEN ext_after_term \cup {kind}
    ELSE ext_after_term

\* history: an external action before the start ping
ExtBefore == ext_before_start \/ hc = << >>

\* the state main() does not touch in a step without database writes
etfData == <<ETFData, DelistedETFs, existing_tickers, etf_data>>
etfBatch == <<batch_num, etf_success_count, error_count, failed_batches,
              batches_run, retried, bw_done>>
etfHc == <<hc, undelivered>>

\* the state before main() of an ETF script starts at position p, the
\* variant being v and the ETFData table holding the tickers d
EtfState(v, p, d) ==
    /\ variant = v
    /\ epc = p
    /\ ETFData = d
    /\ ETFData_at_start = d
    /\ DelistedETFs = {}
    /\ existing_tickers = {}
    /\ etf_data = {}
    /\ pg_aborted = FALSE
    /\ batch_num = 0
    /\ etf_success_count = 0
    /\ error_count = 0
    /\ failed_batches = {}
    /\ batches_run = {}
    /\ retried = {}
    /\ bw_done = FALSE
    /\ steps_failed = {}
    /\ hc = << >>
    /\ undelivered = {}
    /\ ext_before_start = FALSE
    /\ ext_after_term = {}
    /\ conn_open = FALSE
    /\ rc = None

\* either script is started on a table holding any of the tickers
EtfInit == \E v \in {"pg", "ddb"}, d \in SUBSET Tickers : EtfState(v, "hc_start", d)

\* the ETF scripts are not running
EtfIdle == EtfState("pg", "idle", {})

\* postgresql line 584, dynamodb line 812: healthcheck_start()
HealthcheckStart ==
    /\ epc = "hc_start"
    /\ \E delivered \in BOOLEAN :
          /\ hc' = Append(hc, "start")
          /\ undelivered' = IF delivered THEN undelivered ELSE undelivered \cup {"start"}
          /\ epc' = healthcheck_next(delivered, "connect")
    /\ UNCHANGED <<variant, ETFData_at_start, etfData, pg_aborted, etfBatch, steps_failed,
                   ext_before_start, ext_after_term, conn_open, rc>>
    /\ UNCHANGED <<pc, fetchVars, mainVars, restVars>>

\* postgresql line 592: get_db_connection(), which re-raises (lines 89-102);
\* dynamodb lines 819-823: the five create_*_table() calls, which re-raise
\* every ClientError but ResourceInUseException
ConnectOrCreateTables ==
    /\ epc = "connect"
    /\ \E ok \in BOOLEAN :
          /\ epc' = IF ok THEN "existing" ELSE "handler"
          /\ conn_open' = (ok /\ variant = "pg")
          /\ steps_failed' = IF ok THEN steps_failed ELSE steps_failed \cup {"connect"}
    /\ ext_before_start' = ExtBefore
    /\ ext_after_term' = ExtAfter("db")
    /\ UNCHANGED <<variant, ETFData_at_start, etfData, pg_aborted, etfBatch, etfHc, rc>>
    /\ UNCHANGED <<pc, fetchVars, mainVars, restVars>>

\* postgresql lines 147-159: an exception gives set() and, no rollback being
\* done, leaves the transaction aborted;
\* dynamodb lines 412-442: the scan is paginated, an exception gives set()
FetchExistingTickers ==
    /\ epc = "existing"
    /\ \E ok \in BOOLEAN :
          /\ existing_tickers' = IF ok THEN ETFData ELSE {}
          /\ pg_aborted' = (~ok /\ variant = "pg")
          /\ steps_failed' = IF ok THEN steps_failed ELSE steps_failed \cup {"existing"}
    /\ epc' = "api"
    /\ ext_before_start' = ExtBefore
    /\ ext_after_term' = ExtAfter("db")
    /\ UNCHANGED <<variant, ETFData_at_start, ETFData, DelistedETFs, etf_data, etfBatch, etfHc,
                   conn_open, rc>>
    /\ UNCHANGED <<pc, fetchVars, mainVars, restVars>>

\* postgresql lines 132-144 and 599-600, dynamodb lines 333-347 and 829-830:
\* fetch_etf_data() raises on an HTTP error or a status other than 200
FetchEtfData ==
    /\ epc = "api"
    /\ \/ \E data \in SUBSET Tickers :
             /\ etf_data' = data
             /\ epc' = "delisted"
             /\ UNCHANGED steps_failed
       \/ /\ epc' = "handler"
          /\ steps_failed' = steps_failed \cup {"api"}
          /\ UNCHANGED etf_data
    /\ ext_before_start' = ExtBefore
    /\ ext_after_term' = ExtAfter("api")
    /\ UNCHANGED <<variant, ETFData_at_start, ETFData, DelistedETFs, existing_tickers, pg_aborted,
                   etfBatch, etfHc, conn_open, rc>>
    /\ UNCHANGED <<pc, fetchVars, mainVars, restVars>>

\* postgresql line 267, dynamodb line 450
delisted_tickers == existing_tickers \ etf_data

\* lines 269-271 / 452-454: nothing is delisted, no database access
NoDelisted ==
    /\ epc = "delisted"
    /\ delisted_tickers = {}
    /\ epc' = IF variant = "pg" THEN "pg_batch" ELSE "delete_old"
    /\ UNCHANGED <<variant, ETFData_at_start, etfData, pg_aborted, etfBatch, steps_failed, etfHc,
                   ext_before_start, ext_after_term, conn_open, rc>>
    /\ UNCHANGED <<pc, fetchVars, mainVars, restVars>>

\* postgresql lines 265-308: each delisted ticker found in etf_data is copied
\* to delisted_etfs, then commit; any exception (every statement of an
\* aborted transaction raises) rolls back and returns 0
IdentifyDelistedPg ==
    /\ epc = "delisted"
    /\ variant = "pg"
    /\ delisted_tickers # {}
    /\ \E ok \in BOOLEAN :
          IF ok /\ ~pg_aborted
          THEN /\ DelistedETFs' = DelistedETFs \cup (delisted_tickers \cap ETFData)
               /\ UNCHANGED steps_failed
          ELSE /\ steps_failed' = steps_failed \cup {"delisted"}
               /\ UNCHANGED DelistedETFs
    /\ pg_aborted' = FALSE
    /\ epc' = "pg_batch"
    /\ ext_before_start' = ExtBefore
    /\ ext_after_term' = ExtAfter("db")
    /\ UNCHANGED <<variant, ETFData_at_start, ETFData, existing_tickers, etf_data, etfBatch, etfHc,
                   conn_open, rc>>
    /\ UNCHANGED <<pc, fetchVars, mainVars, restVars>>

\* dynamodb lines 445-486: one scan page of DelistedETFs is deleted, then each
\* delisted ticker found in ETFData is put with a delistedDate; a ticker whose
\* get_item raises is skipped (line 478); an exception of the scan or of a
\* batch_writer returns 0 (line 484)
IdentifyDelistedDdb ==
    /\ epc = "delisted"
    /\ variant = "ddb"
    /\ delisted_tickers # {}
    /\ \E page \in ScanPages(DelistedETFs), skipped \in SUBSET delisted_tickers,
          outcome \in {"ok", "scan_raises", "put_raises"} :
          /\ DelistedETFs' =
                CASE outcome = "ok" ->
                        (DelistedETFs \ page)
                            \cup ((delisted_tickers \ skipped) \cap ETFData)
                  [] outcome = "scan_raises" -> DelistedETFs
                  [] outcome = "put_raises" -> DelistedETFs \ page
          /\ steps_failed' = IF outcome = "ok" /\ skipped = {}
                             THEN steps_failed
                             ELSE steps_failed \cup {"delisted"}
    /\ epc' = "delete_old"
    /\ ext_before_start' = ExtBefore
    /\ ext_after_term' = ExtAfter("db")
    /\ UNCHANGED <<variant, ETFData_at_start, ETFData, existing_tickers, etf_data, pg_aborted,
                   etfBatch, etfHc, conn_open, rc>>
    /\ UNCHANGED <<pc, fetchVars, mainVars, restVars>>

\* dynamodb lines 835-842: one scan page of ETFData (the scan is not
\* continued with LastEvaluatedKey) is deleted; an exception reaches main()'s
\* except with some of the page deleted
DeleteOldDdb ==
    /\ epc = "delete_old"
    /\ variant = "ddb"
    /\ \E page \in ScanPages(ETFData) :
          \/ /\ ETFData' = ETFData \ page
             /\ epc' = "batch"
             /\ UNCHANGED steps_failed
          \/ \E done \in SUBSET page :
                /\ done # page
                /\ ETFData' = ETFData \ done
                /\ epc' = "handler"
                /\ steps_failed' = steps_failed \cup {"delete_old"}
    /\ batch_num' = 1
    /\ ext_before_start' = ExtBefore
    /\ ext_after_term' = ExtAfter("db")
    /\ UNCHANGED <<variant, ETFData_at_start, DelistedETFs, existing_tickers, etf_data, pg_aborted,
                   etf_success_count, error_count, failed_batches, batches_run,
                   retried, bw_done, etfHc, conn_open, rc>>
    /\ UNCHANGED <<pc, fetchVars, mainVars, restVars>>

\* dynamodb lines 358-367
items == SetToSeq(etf_data)

\* dynamodb lines 374-402, one pass of the loop over the batches:
\*   ok          : the batch_writer wrote the batch
\*   ClientError : lines 387-398, every item is put on its own, `put` being
\*                 the items whose put_item succeeded
\*   Exception   : lines 400-402, the batch is only counted as failed
BatchWriteDdb ==
    /\ epc = "batch"
    /\ batch_num <= total_batches(items)
    /\ LET batch == BatchItems(items, batch_num)
       IN  \E outcome \in {"ok", "ClientError", "Exception"}, put \in SUBSET batch :
              /\ outcome # "ClientError" => put = {}
              /\ ETFData' = CASE outcome = "ok" -> ETFData \cup batch
                              [] outcome = "ClientError" -> ETFData \cup put
                              [] OTHER -> ETFData
              /\ etf_success_count' =
                    CASE outcome = "ok" -> etf_success_count + Cardinality(batch)
                      [] outcome = "ClientError" -> etf_success_count + Cardinality(put)
                      [] OTHER -> etf_success_count
              /\ error_count' =
                    CASE outcome = "ok" -> error_count
                      [] outcome = "ClientError" ->
                            error_count + Cardinality(batch) - Cardinality(put)
                      [] OTHER -> error_count + Cardinality(batch)
              /\ failed_batches' = IF outcome = "ok" THEN failed_batches
                                   ELSE failed_batches \cup {batch_num}
              /\ retried' = IF outcome = "ClientError" THEN retried \cup batch
                            ELSE retried
    /\ batches_run' = batches_run \cup {batch_num}
    /\ batch_num' = batch_num + 1
    /\ ext_before_start' = ExtBefore
    /\ ext_after_term' = ExtAfter("db")
    /\ UNCHANGED <<variant, ETFData_at_start, epc, DelistedETFs, existing_tickers, etf_data,
                   pg_aborted, bw_done, steps_failed, etfHc, conn_open, rc>>
    /\ UNCHANGED <<pc, fetchVars, mainVars, restVars>>

\* dynamodb lines 404-409: after the loop, raise when records are missing
BatchWriteDdbEnd ==
    /\ epc = "batch"
    /\ batch_num > total_batches(items)
    /\ bw_done' = TRUE
    /\ IF error_count > 0
       THEN /\ epc' = "handler"
            /\ steps_failed' = steps_failed \cup {"upsert"}
       ELSE /\ epc' = "stats"
            /\ UNCHANGED steps_failed
    /\ UNCHANGED <<variant, ETFData_at_start, etfData, pg_aborted, batch_num, etf_success_count,
                   error_count, failed_batches, batches_run, retried, etfHc,
                   ext_before_start, ext_after_term, conn_open, rc>>
    /\ UNCHANGED <<pc, fetchVars, mainVars, restVars>>

\* postgresql lines 162-262: execute_batch sends the items in pages of
\* BATCH_SIZE inside one transaction, then commit; failAt = 0: nothing raises;
\* failAt = k: page k raises (page 1 when the transaction is aborted), and
\* failAt = total_batches + 1: the commit raises. The except rolls back and
\* re-raises. With no item nothing is sent and the commit ends the transaction
BatchWritePg ==
    /\ epc = "pg_batch"
    /\ LET n == total_batches(items)
       IN  \E failAt \in 0..(n + 1) :
              /\ (pg_aborted /\ n > 0) => failAt = 1
              /\ (pg_aborted /\ n = 0) => failAt = 0
              /\ IF failAt = 0
                 THEN /\ ETFData' = IF pg_aborted THEN ETFData ELSE ETFData \cup etf_data
                      /\ etf_success_count' = Len(items)
                      /\ batches_run' = 1..n
                      /\ epc' = "stats"
                      /\ UNCHANGED <<failed_batches, steps_failed>>
                 ELSE /\ batches_run' = 1..(IF failAt > n THEN n ELSE failAt)
                      /\ failed_batches' = IF failAt > n THEN {} ELSE {failAt}
                      /\ steps_failed' = steps_failed \cup {"upsert"}
                      /\ epc' = "handler"
                      /\ UNCHANGED <<ETFData, etf_success_count>>
    /\ pg_aborted' = FALSE
    /\ bw_done' = TRUE
    /\ ext_before_start' = ExtBefore
    /\ ext_after_term' = ExtAfter("db")
    /\ UNCHANGED <<variant, ETFData_at_start, DelistedETFs, existing_tickers, etf_data, batch_num,
                   error_count, retried, etfHc, conn_open, rc>>
    /\ UNCHANGED <<pc, fetchVars, mainVars, restVars>>

\* postgresql lines 456-577 and 610: an exception is rolled back and logged;
\* dynamodb lines 592-802 and 846-847: an exception reaches main()'s except
MarketStatistics ==
    /\ epc = "stats"
    /\ \E ok \in BOOLEAN :
          /\ steps_failed' = IF ok THEN steps_failed ELSE steps_failed \cup {"stats"}
          /\ epc' = IF ok \/ variant = "pg" THEN "new_launch" ELSE "handler"
    /\ ext_before_start' = ExtBefore
    /\ ext_after_term' = ExtAfter("db")
    /\ UNCHANGED <<variant, ETFData_at_start, etfData, pg_aborted, etfBatch, etfHc, conn_open, rc>>
    /\ UNCHANGED <<pc, fetchVars, mainVars, restVars>>

\* postgresql lines 311-360 and 613, dynamodb lines 489-540 and 850:
\* an exception is logged and 0 is returned
SaveNewLaunchEtfs ==
    /\ epc = "new_launch"
    /\ \E ok \in BOOLEAN :
          steps_failed' = IF ok THEN steps_failed ELSE steps_failed \cup {"new_launch"}
    /\ epc' = "gainers"
    /\ ext_before_start' = ExtBefore
    /\ ext_after_term' = ExtAfter("db")
    /\ UNCHANGED <<variant, ETFData_at_start, etfData, pg_aborted, etfBatch, etfHc, conn_open, rc>>
    /\ UNCHANGED <<pc, fetchVars, mainVars, restVars>>

\* postgresql lines 363-453 and 616, dynamodb lines 543-589 and 853:
\* an exception is logged and 0 is returned
SaveGainersAndLosers ==
    /\ epc = "gainers"
    /\ \E ok \in BOOLEAN :
          steps_failed' = IF ok THEN steps_failed ELSE steps_failed \cup {"gainers"}
    /\ epc' = "hc_success"
    /\ ext_before_start' = ExtBefore
    /\ ext_after_term' = ExtAfter("db")
    /\ UNCHANGED <<variant, ETFData_at_start, etfData, pg_aborted, etfBatch, etfHc, conn_open, rc>>
    /\ UNCHANGED <<pc, fetchVars, mainVars, restVars>>

\* postgresql lines 631-632, dynamodb lines 870-872: healthcheck_success(),
\* return 0
HealthcheckSuccess ==
    /\ epc = "hc_success"
    /\ \E delivered \in BOOLEAN :
          /\ hc' = Append(hc, "success")
          /\ undelivered' = IF delivered THEN undelivered ELSE undelivered \cup {"success"}
          /\ epc' = healthcheck_next(delivered, "finally")
          /\ rc' = IF healthcheck_next(delivered, "finally") = "finally" THEN 0 ELSE rc
    /\ UNCHANGED <<variant, ETFData_at_start, etfData, pg_aborted, etfBatch, steps_failed,
                   ext_before_start, ext_after_term, conn_open>>
    /\ UNCHANGED <<pc, fetchVars, mainVars, restVars>>

\* postgresql lines 634-642, dynamodb lines 874-884: healthcheck_fail(),
\* return 1
ExceptionHandler ==
    /\ epc = "handler"
    /\ \E delivered \in BOOLEAN :
          /\ hc' = Append(hc, "fail")
          /\ undelivered' = IF delivered THEN undelivered ELSE undelivered \cup {"fail"}
    /\ rc' = 1
    /\ epc' = "finally"
    /\ UNCHANGED <<variant, ETFData_at_start, etfData, pg_aborted, etfBatch, steps_failed,
                   ext_before_start, ext_after_term, conn_open>>
    /\ UNCHANGED <<pc, fetchVars, mainVars, restVars>>

\* postgresql lines 644-646: finally, conn.close() when a connection was made;
\* the dynamodb main() has no finally
Finally ==
    /\ epc = "finally"
    /\ conn_open' = FALSE
    /\ ext_after_term' = IF conn_open THEN ExtAfter("db_close") ELSE ext_after_term
    /\ epc' = "returned"
    /\ UNCHANGED <<variant, ETFData_at_start, etfData, pg_aborted, etfBatch, steps_failed, etfHc,
                   ext_before_start, rc>>
    /\ UNCHANGED <<pc, fetchVars, mainVars, restVars>>

EtfNext ==
    \/ HealthcheckStart \/ ConnectOrCreateTables \/ FetchExistingTickers
    \/ FetchEtfData \/ NoDelisted \/ IdentifyDelistedPg \/ IdentifyDelistedDdb
    \/ DeleteOldDdb \/ BatchWriteDdb \/ BatchWriteDdbEnd \/ BatchWritePg
    \/ MarketStatistics \/ SaveNewLaunchEtfs \/ SaveGainersAndLosers
    \/ HealthcheckSuccess \/ ExceptionHandler \/ Finally

(***************************************************************************)
(* calculate_market_statistics (fetch_etf_to_dynamodb.py) and              *)
(* calculate_and_save_market_statistics (fetch_etf_to_postgresql.py)       *)
(***************************************************************************)
\* a key that data.get() does not find
Missing == "missing"

\* expense ratios are written in hundredths: 0.10 is 10, 2.00 is 200
RatioTexts == {None, 0, 9, 10, 24, 25, 49, 50, 99, 100, 199, 200, 350}
AumValues == {None, 0, 3, 7}
IssuerValues == {"Vanguard", Missing}
LeverageValues == {"Long", "Inverse"}

EtfRecord(aum, issuer, leverage, ratio) ==
    [aum |-> aum, issuer |-> issuer, etfLeverage |-> leverage, expenseRatio |-> ratio]

\* the API items given to the statistics: every AUM, issuer and leverage
\* with two expense ratios, and every expense ratio for one kind of ETF
EtfItems ==
    { EtfRecord(a, i, l, r) : a \in AumValues, i \in IssuerValues,
                              l \in LeverageValues, r \in {None, 30} }
    \cup { EtfRecord(7, "Vanguard", "Long", r) : r \in RatioTexts }

\* data.get(key, 'Unknown')
GetOrUnknown(v) == IF v = Missing THEN "Unknown" ELSE v

\* a float keeps FloatDigits significant binary digits: x, a natural number,
\* is rounded to the nearest multiple of step (ties to the even multiple),
\* step being the least power of two that leaves at most FloatDigits digits
RECURSIVE RoundAt(_, _)
RoundAt(x, step) ==
    IF x >= Pow2(FloatDigits) * step THEN RoundAt(x, 2 * step)
    ELSE LET q == x \div step
             r == x % step
             up == 2 * r > step \/ (2 * r = step /\ q % 2 = 1)
         IN  (IF up THEN q + 1 ELSE q) * step

\* the float nearest to x
Float(x) == RoundAt(x, 1)

\* postgresql lines 481-483: if aum: ... += float(aum)
AddAumPg(acc, aum) ==
    IF aum = None \/ aum = 0 THEN acc ELSE Float(acc + Float(aum))

\* dynamodb lines 628-630: if aum is not None: ... += Decimal(str(aum))
AddAumDdb(acc, aum) ==
    IF aum = None THEN acc ELSE acc + aum

AddAum(v, acc, aum) == IF v = "pg" THEN AddAumPg(acc, aum) ELSE AddAumDdb(acc, aum)

\* dynamodb lines 645-663: the if / elif chain on ratio = float(expense_ratio)
expense_ratio_range_ddb(expense_ratio) ==
    IF expense_ratio = None THEN "N/A"
    ELSE LET ratio == expense_ratio
         IN  IF ratio < 10 THEN "0.00-0.10"
             ELSE IF ratio < 25 THEN "0.10-0.25"
             ELSE IF ratio < 50 THEN "0.25-0.50"
             ELSE IF ratio < 100 THEN "0.50-1.00"
             ELSE IF ratio < 200 THEN "1.00-2.00"
             ELSE "2.00+"

\* a chain that puts the bound 0.10 in the lower bucket
expense_ratio_range_closed(expense_ratio) ==
    IF expense_ratio = None THEN "N/A"
    ELSE LET ratio == expense_ratio
         IN  IF ratio <= 10 THEN "0.00-0.10"
             ELSE IF ratio < 25 THEN "0.10-0.25"
             ELSE IF ratio < 50 THEN "0.25-0.50"
             ELSE IF ratio < 100 THEN "0.50-1.00"
             ELSE IF ratio < 200 THEN "1.00-2.00"
             ELSE "2.00+"

\* postgresql lines 507-524: the if / elif chain on ratio = float(expense_ratio)
expense_ratio_range_pg(expense_ratio) ==
    IF expense_ratio = None THEN "N/A"
    ELSE LET ratio == expense_ratio
         IN  IF ratio < 10 THEN "0.00-0.10"
             ELSE IF ratio < 25 THEN "0.10-0.25"
             ELSE IF ratio < 50 THEN "0.25-0.50"
             ELSE IF ratio < 100 THEN "0.50-1.00"
             ELSE IF ratio < 200 THEN "1.00-2.00"
             ELSE "2.00+"

expense_ratio_range(v, expense_ratio) ==
    IF v = "pg" THEN expense_ratio_range_pg(expense_ratio)
    ELSE expense_ratio_range_ddb(expense_ratio)

\* dynamodb lines 615-623, postgresql lines 467-475
expense_ratio_ranges ==
    {"0.00-0.10", "0.10-0.25", "0.25-0.50", "0.50-1.00", "1.00-2.00", "2.00+", "N/A"}

\* the entry {'aum': 0, 'count': 0} of a new key
ZeroEntry == [aum |-> 0, count |-> 0]

\* the entry of a key that is created anew at every ETF
EntryOfFresh(d, key) == ZeroEntry

\* d[key] of a dictionary to which key was added with ZeroEntry when absent
EntryOf(d, key) == IF key \in DOMAIN d THEN d[key] ELSE ZeroEntry

\* the dictionary d after d[key]['count'] += 1 and the addition of aum
Accumulate(v, d, key, aum) ==
    LET old == EntryOf(d, key)
        new == [aum |-> AddAum(v, old.aum, aum), count |-> old.count + 1]
    IN  [k \in DOMAIN d \cup {key} |-> IF k = key THEN new ELSE d[k]]

\* dynamodb lines 603-611, postgresql lines 461-476
StatInit ==
    /\ stat_variant \in {"pg", "ddb"}
    /\ stats = [total_aum |-> 0,
                total_etf_count |-> 0,
                issuers |-> << >>,
                expense_ratios |-> [b \in expense_ratio_ranges |-> 0],
                leverage_types |-> << >>,
                issuer_leverage |-> << >>]
    /\ etfs_seen = 0
    /\ aum_sum = 0
    /\ last_ratio = None
    /\ last_bucket = "none"

\* dynamodb lines 625-689, postgresql lines 478-524: one pass of
\* for ticker, data in etf_data.items()
StatsLoop ==
    /\ etfs_seen < MaxEtfs
    /\ \E data \in EtfItems :
          LET aum == data.aum
              issuer == GetOrUnknown(data.issuer)
              leverage_type == GetOrUnknown(data.etfLeverage)
              bucket == expense_ratio_range(stat_variant, data.expenseRatio)
              il == IF issuer \in DOMAIN stats.issuer_leverage
                    THEN stats.issuer_leverage[issuer] ELSE << >>
          IN  /\ stats' =
                    [total_aum |-> AddAum(stat_variant, stats.total_aum, aum),
                     total_etf_count |-> stats.total_etf_count + 1,
                     issuers |-> Accumulate(stat_variant, stats.issuers, issuer, aum),
                     expense_ratios |->
                         [stats.expense_ratios EXCEPT ![bucket] = @ + 1],
                     leverage_types |->
                         Accumulate(stat_variant, stats.leverage_types, leverage_type, aum),
                     issuer_leverage |->
                         [k \in DOMAIN stats.issuer_leverage \cup {issuer} |->
                             IF k = issuer
                             THEN Accumulate(stat_variant, il, leverage_type, aum)
                             ELSE stats.issuer_leverage[k]]]
              /\ aum_sum' = IF aum = None THEN aum_sum ELSE aum_sum + aum
              /\ last_ratio' = data.expenseRatio
              /\ last_bucket' = bucket
    /\ etfs_seen' = etfs_seen + 1
    /\ UNCHANGED stat_variant
    /\ UNCHANGED <<pc, fetchVars, mainVars, etfVars>>
    /\ UNCHANGED othersOfStat

(***************************************************************************)
(* fetch_us_index_constituents.py : compare_constituents                   *)
(***************************************************************************)
\* item['symbol'] of a scraped item; "" when the symbol is empty or absent
ItemSymbols == {"", "AAPL", "MSFT"}

\* the lists of at most n scraped items
RECURSIVE ItemLists(_)
ItemLists(n) ==
    IF n = 0 THEN {<< >>}
    ELSE ItemLists(n - 1)
            \cup { Append(l, s) : l \in { x \in ItemLists(n - 1) : Len(x) = n - 1 },
                                  s \in ItemSymbols }

\* what a fetch function returns: None or a list of items
ScrapeResults ==
    {[is_none |-> TRUE, items |-> << >>]}
        \cup { [is_none |-> FALSE, items |-> l] : l \in ItemLists(MaxListLen) }

\* Python's `not data` for None or a list
NotData(data) == data.is_none \/ data.items = << >>

\* lines 800-801: set(item['symbol'] for item in data if item.get('symbol'))
SymbolSet(data) ==
    { data.items[i] : i \in { j \in 1..Len(data.items) : data.items[j] # "" } }

\* a test that only looks at the symbols missing from StockAnalysis
is_consistent_one_sided(only_in_slick, only_in_stock) == only_in_slick = {}

\* line 824: is_consistent = len(only_in_slick) == 0 and len(only_in_stock) == 0
is_consistent(only_in_slick, only_in_stock) ==
    only_in_slick = {} /\ only_in_stock = {}

\* lines 791-837
compare_constituents(slickcharts_data, stockanalysis_data) ==
    IF NotData(slickcharts_data) \/ NotData(stockanalysis_data) THEN FALSE
    ELSE LET slick_symbols == SymbolSet(slickcharts_data)
             stock_symbols == SymbolSet(stockanalysis_data)
             only_in_slick == slick_symbols \ stock_symbols
             only_in_stock == stock_symbols \ slick_symbols
         IN  is_consistent(only_in_slick, only_in_stock)

\* any two results of the two scrapes, not yet compared
CmpInit ==
    /\ cmp_slick \in ScrapeResults
    /\ cmp_stock \in ScrapeResults
    /\ cmp_done = FALSE
    /\ cmp_result = FALSE

\* compare_constituents is not called
CmpIdle ==
    /\ cmp_slick = [is_none |-> TRUE, items |-> << >>]
    /\ cmp_stock = [is_none |-> TRUE, items |-> << >>]
    /\ cmp_done = FALSE
    /\ cmp_result = FALSE

\* the call compare_constituents(slickcharts_data, stockanalysis_data, name)
CompareCall ==
    /\ ~cmp_done
    /\ cmp_result' = compare_constituents(cmp_slick, cmp_stock)
    /\ cmp_done' = TRUE
    /\ UNCHANGED <<cmp_slick, cmp_stock>>
    /\ UNCHANGED <<pc, fetchVars, mainVars, etfVars>>
    /\ UNCHANGED othersOfCmp

\* the statistics are not computed
StatIdle == StatInit /\ stat_variant = "pg"

(***************************************************************************)
(* yfinance downloads behind a proxy:                                      *)
(*   fetch_us_index_constituents.py : fetch_all_market_data and            *)
(*                                    fetch_batch_stock_data               *)
(*   scrape_index_history.py        : fetch_index_data                     *)
(***************************************************************************)
\* the environment variables both functions set for the request
ProxyVars == {"HTTP_PROXY", "HTTPS_PROXY"}

\* the values of --ath-batch-size and --ratio-batch-size
BatchSizeOptions == 1..(batch_size + 1)

\* the symbols of a run: all_symbols_list
SymbolLists == { [i \in 1..n |-> i] : n \in 0..MaxSymbols }

\* fetch_us_index_constituents.py lines 493 and 619
yf_total_batches == (Len(symbols) + batch_size - 1) \div batch_size

\* lines 499-501 and 622-624: symbols[start_idx:end_idx]
batch_symbols ==
    LET start_idx == yf_batch_num * batch_size
        end_idx == IF (yf_batch_num + 1) * batch_size < Len(symbols)
                   THEN (yf_batch_num + 1) * batch_size ELSE Len(symbols)
    IN  SubSeq(symbols, start_idx + 1, end_idx)

\* os.environ after the proxy variables were set / deleted, when use_proxy
EnvSet == IF use_proxy THEN environ \cup ProxyVars ELSE environ
EnvCleaned == IF use_proxy THEN environ \ ProxyVars ELSE environ

\* the state at the call of one of the two functions
YfState(caller, p, proxy, env, syms, a, r) ==
    /\ yf_caller = caller
    /\ ypc = p
    /\ use_proxy = proxy
    /\ environ = env
    /\ symbols = syms
    /\ ath_batch_size = a
    /\ ratio_batch_size = r
    /\ yf_batch_num = 0
    /\ ath_batches = << >>
    /\ ratio_batches = << >>
    /\ yf_result = "none"

\* fetch_all_market_data is called with any symbols and options, or
\* fetch_index_data is called; the proxy variables may be set beforehand
YfInit ==
    \E proxy \in BOOLEAN, env \in SUBSET ProxyVars :
        \/ \E syms \in SymbolLists, a \in BatchSizeOptions, r \in BatchSizeOptions :
              YfState("fetch_all_market_data", "call", proxy, env, syms, a, r)
        \/ YfState("fetch_index_data", "fid_start", proxy, env, << >>,
                   batch_size, batch_size)

\* neither function is called
YfIdle == YfState("none", "idle", FALSE, {}, << >>, batch_size, batch_size)

\* fetch_us_index_constituents.py lines 858-867: fetch_all_market_data returns
\* at once without symbols, else calls fetch_batch_stock_data(all_symbols_list,
\* use_proxy); ath_batch_size and ratio_batch_size are not passed on
FetchAllMarketData ==
    /\ ypc = "call"
    /\ IF symbols = << >>
       THEN /\ ypc' = "returned"
            /\ yf_result' = "no_symbols"
       ELSE /\ ypc' = "ath_loop"
            /\ UNCHANGED yf_result
    /\ UNCHANGED <<yf_caller, use_proxy, environ, symbols, ath_batch_size,
                   ratio_batch_size, yf_batch_num, ath_batches, ratio_batches>>
    /\ UNCHANGED <<pc, fetchVars, mainVars, etfVars>>
    /\ UNCHANGED othersOfYf

\* lines 498-513: an ATH batch begins, the proxy variables are set
AthBatchBegin ==
    /\ ypc = "ath_loop"
    /\ yf_batch_num < yf_total_batches
    /\ ath_batches' = Append(ath_batches, batch_symbols)
    /\ environ' = EnvSet
    /\ ypc' = "ath_batch"
    /\ UNCHANGED <<yf_caller, use_proxy, symbols, ath_batch_size,
                   ratio_batch_size, yf_batch_num, ratio_batches, yf_result>>
    /\ UNCHANGED <<pc, fetchVars, mainVars, etfVars>>
    /\ UNCHANGED othersOfYf

\* lines 514-614: the downloads of the batch succeed (clean-up of lines
\* 592-597) or raise (clean-up of lines 608-613, continue)
AthBatchEnd ==
    /\ ypc = "ath_batch"
    /\ \E ok \in BOOLEAN : environ' = EnvCleaned
    /\ yf_batch_num' = yf_batch_num + 1
    /\ ypc' = "ath_loop"
    /\ UNCHANGED <<yf_caller, use_proxy, symbols, ath_batch_size,
                   ratio_batch_size, ath_batches, ratio_batches, yf_result>>
    /\ UNCHANGED <<pc, fetchVars, mainVars, etfVars>>
    /\ UNCHANGED othersOfYf

\* lines 616-621: the ATH loop is over, the ratios loop starts
AthLoopExit ==
    /\ ypc = "ath_loop"
    /\ yf_batch_num >= yf_total_batches
    /\ yf_batch_num' = 0
    /\ ypc' = "ratio_loop"
    /\ UNCHANGED <<yf_caller, use_proxy, environ, symbols, ath_batch_size,
                   ratio_batch_size, ath_batches, ratio_batches, yf_result>>
    /\ UNCHANGED <<pc, fetchVars, mainVars, etfVars>>
    /\ UNCHANGED othersOfYf

\* lines 621-634: a ratios batch begins, the proxy variables are set
RatioBatchBegin ==
    /\ ypc = "ratio_loop"
    /\ yf_batch_num < yf_total_batches
    /\ ratio_batches' = Append(ratio_batches, batch_symbols)
    /\ environ' = EnvSet
    /\ ypc' = "ratio_batch"
    /\ UNCHANGED <<yf_caller, use_proxy, symbols, ath_batch_size,
                   ratio_batch_size, yf_batch_num, ath_batches, yf_result>>
    /\ UNCHANGED <<pc, fetchVars, mainVars, etfVars>>
    /\ UNCHANGED othersOfYf

\* lines 636-709: the batch succeeds (clean-up of lines 683-689) or raises
\* (clean-up of lines 700-706, continue)
RatioBatchEnd ==
    /\ ypc = "ratio_batch"
    /\ \E ok \in BOOLEAN : environ' = EnvCleaned
    /\ yf_batch_num' = yf_batch_num + 1
    /\ ypc' = "ratio_loop"
    /\ UNCHANGED <<yf_caller, use_proxy, symbols, ath_batch_size,
                   ratio_batch_size, ath_batches, ratio_batches, yf_result>>
    /\ UNCHANGED <<pc, fetchVars, mainVars, etfVars>>
    /\ UNCHANGED othersOfYf

\* lines 711-714: return ath_data, ratios_data, price_data
RatioLoopExit ==
    /\ ypc = "ratio_loop"
    /\ yf_batch_num >= yf_total_batches
    /\ yf_result' = "data"
    /\ ypc' = "returned"
    /\ UNCHANGED <<yf_caller, use_proxy, environ, symbols, ath_batch_size,
                   ratio_batch_size, yf_batch_num, ath_batches, ratio_batches>>
    /\ UNCHANGED <<pc, fetchVars, mainVars, etfVars>>
    /\ UNCHANGED othersOfYf

\* lines 716-725: an exception outside the try of a batch; clean-up, return
\* {}, {}, {}
BatchFetchFails ==
    /\ ypc \in {"ath_loop", "ratio_loop"}
    /\ environ' = EnvCleaned
    /\ yf_result' = "error"
    /\ ypc' = "returned"
    /\ UNCHANGED <<yf_caller, use_proxy, symbols, ath_batch_size,
                   ratio_batch_size, yf_batch_num, ath_batches, ratio_batches>>
    /\ UNCHANGED <<pc, fetchVars, mainVars, etfVars>>
    /\ UNCHANGED othersOfYf

\* scrape_index_history.py lines 89-95: the proxy variables are set
FetchIndexDataBegin ==
    /\ ypc = "fid_start"
    /\ environ' = EnvSet
    /\ ypc' = "fid_download"
    /\ UNCHANGED <<yf_caller, use_proxy, symbols, ath_batch_size,
                   ratio_batch_size, yf_batch_num, ath_batches, ratio_batches,
                   yf_result>>
    /\ UNCHANGED <<pc, fetchVars, mainVars, etfVars>>
    /\ UNCHANGED othersOfYf

\* scrape_index_history.py lines 97-133: yf.download gives data (clean-up of
\* lines 115-119, return data), gives an empty frame (lines 108-110: return
\* None at once), or raises (clean-up of lines 127-131, return None)
FetchIndexDataEnd ==
    /\ ypc = "fid_download"
    /\ \E outcome \in {"data", "empty", "error"} :
          /\ environ' = IF outcome = "empty" THEN environ ELSE EnvCleaned
          /\ yf_result' = outcome
    /\ ypc' = "returned"
    /\ UNCHANGED <<yf_caller, use_proxy, symbols, ath_batch_size,
                   ratio_batch_size, yf_batch_num, ath_batches, ratio_batches>>
    /\ UNCHANGED <<pc, fetchVars, mainVars, etfVars>>
    /\ UNCHANGED othersOfYf

YfNext ==
    \/ FetchAllMarketData \/ AthBatchBegin \/ AthBatchEnd \/ AthLoopExit
    \/ RatioBatchBegin \/ RatioBatchEnd \/ RatioLoopExit \/ BatchFetchFails
    \/ FetchIndexDataBegin \/ FetchIndexDataEnd

(***************************************************************************)
(* fetch_us_index_constituents.py : main() for one index                   *)
(* A constituent is a record of its fields; the value of a field says      *)
(* where it comes from: "db" (stored before the run), "yf" (yfinance,      *)
(* step 2), "slick" (SlickCharts), "sa" (StockAnalysis), "absent".         *)
(***************************************************************************)
\* symbols stored for the index before the run may be any of these
StoredSymbols == {"AAPL", "MSFT"}
\* symbols SlickCharts may list
ScrapedSymbols == StoredSymbols \cup {"NVDA"}

\* lines 1023-1041: a constituent as it is loaded from an item of the table
StoredItem ==
    [no |-> "db", name |-> "db", weight |-> "db", marketCap |-> "db",
     price |-> "db", change |-> "db", ath_price |-> "db",
     ath_change_percent |-> "db", ratios |-> "db"]

\* lines 250-260 and 839-855: an item of fetch_slickcharts_data, its marketCap
\* replaced by merge_market_cap_data when StockAnalysis lists the symbol
ScrapedItem(in_stockanalysis) ==
    [no |-> "slick", name |-> "slick", weight |-> "slick",
     marketCap |-> IF in_stockanalysis THEN "sa" ELSE "slick",
     price |-> "slick", change |-> "slick", ath_price |-> "absent",
     ath_change_percent |-> "absent", ratios |-> "absent"]

\* an update that takes every field of the scraped item
UpdateWithAll(existing_constituent, new_data) == new_data

\* lines 1171-1176: existing_constituent.update({'no', 'name', 'weight',
\* 'marketCap'}) from new_data
UpdateFromScrape(existing_constituent, new_data) ==
    [existing_constituent EXCEPT !.no = new_data.no,
                                 !.name = new_data.name,
                                 !.weight = new_data.weight,
                                 !.marketCap = new_data.marketCap]

\* line 1163: existing_symbols[symbol].copy() is what is updated, so the
\* dictionary held by existing_data stays as it was
OriginalAfterUpdate(original, updated) == original

\* lines 1081-1111: the fields of one constituent after step 2
UpdatedInStep2(constituent, has_ath, has_ratios, has_price, positive) ==
    LET c1 == IF has_ath THEN [constituent EXCEPT !.ath_price = "yf"] ELSE constituent
        c2 == IF has_ratios THEN [c1 EXCEPT !.ratios = "yf"] ELSE c1
    IN  IF has_price
        THEN [c2 EXCEPT !.price = "yf", !.change = "yf",
                        !.ath_change_percent = IF positive THEN "yf" ELSE "absent"]
        ELSE c2

\* the empty dictionary / list
NoConstituents == [s \in {} |-> StoredItem]

\* the table holds any of the symbols of the index
IxState(p, stored) ==
    /\ ipc = p
    /\ index_table = [s \in stored |-> StoredItem]
    /\ symbols_at_start = stored
    /\ existing_data = NoConstituents
    /\ existing_after_step2 = NoConstituents
    /\ updated_data = NoConstituents
    /\ scraped_symbols = {}
    /\ steps_raised = {}

IxInit == \E stored \in SUBSET StoredSymbols : IxState("load", stored)

IxIdle == IxState("idle", {})

\* lines 997-1053, step 1: without a table existing_data is {}, a query that
\* raises gives [] for the index, else the items of the index are loaded
LoadExistingData ==
    /\ ipc = "load"
    /\ \E outcome \in {"no_table", "query_raises", "ok"} :
          /\ existing_data' = IF outcome = "ok" THEN index_table ELSE NoConstituents
          /\ steps_raised' = IF outcome = "ok" THEN steps_raised
                             ELSE steps_raised \cup {"load"}
    /\ ipc' = "step2"
    /\ UNCHANGED <<index_table, symbols_at_start, existing_after_step2,
                   updated_data, scraped_symbols>>
    /\ UNCHANGED <<pc, fetchVars, mainVars, etfVars>>
    /\ UNCHANGED othersOfIx

\* lines 1055-1116, step 2: the constituents are updated in place with what
\* yfinance returned for their symbol
UpdateAthAndRatios ==
    /\ ipc = "step2"
    /\ \E ath_data \in SUBSET DOMAIN existing_data,
          ratios_data \in SUBSET DOMAIN existing_data,
          price_data \in SUBSET DOMAIN existing_data,
          positive \in BOOLEAN :
          /\ (price_data = {}) => positive
          /\ existing_data' =
                [s \in DOMAIN existing_data |->
                    UpdatedInStep2(existing_data[s], s \in ath_data,
                                   s \in ratios_data, s \in price_data, positive)]
    /\ existing_after_step2' = existing_data'
    /\ ipc' = "scrape"
    /\ UNCHANGED <<index_table, symbols_at_start, updated_data,
                   scraped_symbols, steps_raised>>
    /\ UNCHANGED <<pc, fetchVars, mainVars, etfVars>>
    /\ UNCHANGED othersOfIx

\* lines 1139-1143: the SlickCharts scrape gave nothing, the existing
\* constituents are kept
ScrapeFails ==
    /\ ipc = "scrape"
    /\ scraped_symbols' = {}
    /\ updated_data' = existing_data
    /\ steps_raised' = steps_raised \cup {"scrape"}
    /\ ipc' = "step4"
    /\ UNCHANGED <<index_table, symbols_at_start, existing_data,
                   existing_after_step2>>
    /\ UNCHANGED <<pc, fetchVars, mainVars, etfVars>>
    /\ UNCHANGED othersOfIx

\* lines 1145-1192: every scraped symbol gives one constituent, the existing
\* one updated from the scrape when there is one, else the scraped item
ScrapeAndCompare ==
    /\ ipc = "scrape"
    /\ \E scraped \in (SUBSET ScrapedSymbols) \ {{}}, in_stockanalysis \in BOOLEAN :
          LET new_data == ScrapedItem(in_stockanalysis)
              merged == [s \in scraped \cap DOMAIN existing_data |->
                            UpdateFromScrape(existing_data[s], new_data)]
          IN  /\ scraped_symbols' = scraped
              /\ updated_data' =
                    [s \in scraped |->
                        IF s \in DOMAIN existing_data THEN merged[s] ELSE new_data]
              /\ existing_data' =
                    [s \in DOMAIN existing_data |->
                        IF s \in scraped
                        THEN OriginalAfterUpdate(existing_data[s], merged[s])
                        ELSE existing_data[s]]
    /\ ipc' = "step4"
    /\ UNCHANGED <<index_table, symbols_at_start, existing_after_step2,
                   steps_raised>>
    /\ UNCHANGED <<pc, fetchVars, mainVars, etfVars>>
    /\ UNCHANGED othersOfIx

\* lines 1212-1259 and 135-182, step 4: without a table nothing is done; else
\* the items of the index are queried and deleted and updated_data is saved.
\* An exception of the query or of the delete is logged (line 1255), one of
\* the batch writer of save_to_dynamodb is logged there (line 180): `left`
\* is what the table holds of the old items, `saved` what was written
UpdateDynamoDB ==
    /\ ipc = "step4"
    /\ \E outcome \in {"no_table", "query_raises", "delete_raises", "save_raises", "ok"},
          left \in SUBSET DOMAIN index_table,
          saved \in SUBSET DOMAIN updated_data :
          /\ outcome \in {"no_table", "query_raises"} => left = DOMAIN index_table
          /\ outcome \in {"save_raises", "ok"} => left = {}
          /\ outcome = "delete_raises" => left # {}
          /\ outcome = "ok" => saved = DOMAIN updated_data
          /\ outcome = "save_raises" => saved # DOMAIN updated_data
          /\ outcome \in {"no_table", "query_raises", "delete_raises"} => saved = {}
          /\ index_table' =
                [s \in left \cup saved |->
                    IF s \in saved THEN updated_data[s] ELSE index_table[s]]
          /\ steps_raised' = IF outcome = "ok" THEN steps_raised
                             ELSE steps_raised \cup {"step4"}
    /\ ipc' = "done"
    /\ UNCHANGED <<symbols_at_start, existing_data, existing_after_step2,
                   updated_data, scraped_symbols>>
    /\ UNCHANGED <<pc, fetchVars, mainVars, etfVars>>
    /\ UNCHANGED othersOfIx

IxNext ==
    \/ LoadExistingData \/ UpdateAthAndRatios \/ ScrapeFails \/ ScrapeAndCompare
    \/ UpdateDynamoDB

(***************************************************************************)
(* mag7_backtest.py : backtest_strategy                                    *)
(* Dates are the days 1..MaxDays, closes are whole amounts 1..MaxClose,    *)
(* 0 stands for a date that is not in the index of the ticker.  Cash is    *)
(* counted in whole units.                                                 *)
(***************************************************************************)
\* line 22, cut down to two tickers
MAG7_TICKERS == <<"AAPL", "MSFT">>

\* line 28
POSITION_SIZE == INITIAL_CAPITAL \div Len(MAG7_TICKERS)

\* drop_threshold, in percent (line 26: 0.20)
DropThresholds == {20, 50}

BtDates == 1..MaxDays

\* the frames of download_data: for every ticker the close of every date
PriceData == [{MAG7_TICKERS[i] : i \in 1..Len(MAG7_TICKERS)} -> [BtDates -> 0..MaxClose]]

\* the largest element of a non-empty set of numbers
SetMax(S) == CHOOSE m \in S : \A x \in S : x <= m

\* the maximum over the whole series, later dates included
ath_of_whole_series(prices, d) ==
    SetMax({prices[e] : e \in BtDates})

\* lines 124-125: data[ticker].loc[:date, 'Close'].max()
ath_up_to(prices, d) ==
    SetMax({prices[e] : e \in 1..d})

\* lines 126 and 129: (current_price - ath) / ath <= -drop_threshold, for a
\* positive ath and a threshold in percent
drawdown_reached(current_price, ath, threshold) ==
    (current_price - ath) * 100 <= -threshold * ath

\* line 105
EmptyPosition == [shares |-> 0, last_buy_date |-> 0, last_buy_price |-> 0]

\* line 131: POSITION_SIZE / current_price, in hundredths of a share
shares_to_buy(current_price) == (POSITION_SIZE * 100) \div current_price

\* lines 150-152: the value of the holding of one ticker, in whole units
HoldingValue(position, current_price) ==
    IF position.shares > 0
    THEN (position.shares * current_price) \div 100
    ELSE 0

BtState(p, d, th) ==
    /\ bpc = p
    /\ bt_data = d
    /\ drop_threshold = th
    /\ bt_date = 1
    /\ ticker_i = 1
    /\ portfolio = [t \in DOMAIN d |-> EmptyPosition]
    /\ cash = INITIAL_CAPITAL
    /\ daily_value = INITIAL_CAPITAL
    /\ portfolio_values = << >>
    /\ trades = << >>

\* lines 100-110
BtInit == \E d \in PriceData, th \in DropThresholds : BtState("ticker", d, th)

BtIdle == BtState("idle", [t \in {} |-> 0], 0)

\* the next ticker of the inner loop, or the end of the day
NextTicker ==
    /\ ticker_i' = ticker_i + 1
    /\ bpc' = IF ticker_i = Len(MAG7_TICKERS) THEN "end_of_day" ELSE "ticker"

\* lines 117-118: the date is not in the index of the ticker
SkipTicker ==
    /\ bpc = "ticker"
    /\ bt_data[MAG7_TICKERS[ticker_i]][bt_date] = 0
    /\ NextTicker
    /\ UNCHANGED <<bt_data, drop_threshold, bt_date, portfolio, cash,
                   daily_value, portfolio_values, trades>>
    /\ UNCHANGED <<pc, fetchVars, mainVars, etfVars>>
    /\ UNCHANGED othersOfBt

\* lines 121-152, the buy signal holds.  cash -= POSITION_SIZE is a float
\* subtraction: its result is rounded, and may fall short by one unit of
\* the exact difference (100000 - 6 * (100000 / 7) < 100000 / 7 in Python)
BuyTicker ==
    /\ bpc = "ticker"
    /\ LET ticker == MAG7_TICKERS[ticker_i]
           current_price == bt_data[ticker][bt_date]
           ath == ath_up_to(bt_data[ticker], bt_date)
       IN  /\ current_price # 0
           /\ drawdown_reached(current_price, ath, drop_threshold)
           /\ portfolio[ticker].shares = 0
           /\ cash >= POSITION_SIZE
           /\ portfolio' = [portfolio EXCEPT ![ticker] =
                               [shares |-> shares_to_buy(current_price), last_buy_date |-> bt_date,
                                last_buy_price |-> current_price]]
           /\ \E rounding \in {0, 1} : cash' = cash - POSITION_SIZE - rounding
           /\ trades' = Append(trades,
                               [date |-> bt_date, ticker |-> ticker,
                                action |-> "BUY", price |-> current_price,
                                shares |-> shares_to_buy(current_price),
                                ath |-> ath,
                                shares_before |-> portfolio[ticker].shares,
                                cash_before |-> cash])
           /\ daily_value' = daily_value + HoldingValue(portfolio'[ticker], current_price)
    /\ NextTicker
    /\ UNCHANGED <<bt_data, drop_threshold, bt_date, portfolio_values>>
    /\ UNCHANGED <<pc, fetchVars, mainVars, etfVars>>
    /\ UNCHANGED othersOfBt

\* lines 121-129 and 150-152, no buy signal
NoBuy ==
    /\ bpc = "ticker"
    /\ LET ticker == MAG7_TICKERS[ticker_i]
           current_price == bt_data[ticker][bt_date]
           ath == ath_up_to(bt_data[ticker], bt_date)
       IN  /\ current_price # 0
           /\ ~(/\ drawdown_reached(current_price, ath, drop_threshold)
                /\ portfolio[ticker].shares = 0
                /\ cash >= POSITION_SIZE)
           /\ daily_value' = daily_value + HoldingValue(portfolio[ticker], current_price)
    /\ NextTicker
    /\ UNCHANGED <<bt_data, drop_threshold, bt_date, portfolio, cash,
                   portfolio_values, trades>>
    /\ UNCHANGED <<pc, fetchVars, mainVars, etfVars>>
    /\ UNCHANGED othersOfBt

\* lines 154-157 and 112-113: the value of the day is recorded, the next date
\* starts with daily_value = cash; after the last date lines 159-162 return
EndOfDay ==
    /\ bpc = "end_of_day"
    /\ portfolio_values' = Append(portfolio_values,
                                  [date |-> bt_date, portfolio_value |-> daily_value])
    /\ IF bt_date < MaxDays
       THEN /\ bt_date' = bt_date + 1
            /\ ticker_i' = 1
            /\ daily_value' = cash
            /\ bpc' = "ticker"
       ELSE /\ bpc' = "returned"
            /\ UNCHANGED <<bt_date, ticker_i, daily_value>>
    /\ UNCHANGED <<bt_data, drop_threshold, portfolio, cash, trades>>
    /\ UNCHANGED <<pc, fetchVars, mainVars, etfVars>>
    /\ UNCHANGED othersOfBt

BtNext == SkipTicker \/ BuyTicker \/ NoBuy \/ EndOfDay

(***************************************************************************)
(* fetch_etf_to_postgresql.py : save_gainers_and_losers                    *)
(* A return of the API is << >> for a missing or null value and <<v>> for  *)
(* the number v (whole percents).  An item keeps its key, its ticker and   *)
(* its returnValue; issuer, etfLeverage, aum and etfIndex are copied from  *)
(* the ETF of the ticker and are left out.                                 *)
(***************************************************************************)
\* line 393, cut down to two of the eight periods
periods == <<"ch1w", "ch1m">>

ReturnTexts == {<< >>, <<-2>>, <<0>>, <<3>>}

\* lines 378-385: float(data.get(p, 0)) if data.get(p) else 0
ReturnOf(text) == IF text = << >> \/ text = <<0>> THEN 0 ELSE text[1]

\* etf_data: the ETFs 1..n in the order of etf_data.items(), each with one
\* return text per period
GlEtfData ==
    UNION { [1..n -> [{periods[i] : i \in 1..Len(periods)} -> ReturnTexts]] :
            n \in 0..MaxGlEtfs }

\* x put behind the elements of the sorted list that sort before it or equal
RECURSIVE InsertSorted(_, _, _, _)
InsertSorted(x, sorted_list, period_key, reverse) ==
    IF sorted_list = << >> THEN <<x>>
    ELSE LET head == Head(sorted_list)
             stays == IF reverse THEN head[period_key] >= x[period_key]
                                 ELSE head[period_key] <= x[period_key]
         IN  IF stays
             THEN <<head>> \o InsertSorted(x, Tail(sorted_list), period_key, reverse)
             ELSE <<x>> \o sorted_list

\* sorted(data, key=lambda x: x[period_key], reverse=reverse): a stable sort
RECURSIVE sorted(_, _, _)
sorted(data, period_key, reverse) ==
    IF data = << >> THEN << >>
    ELSE InsertSorted(data[Len(data)],
                      sorted(SubSeq(data, 1, Len(data) - 1), period_key, reverse),
                      period_key, reverse)

\* data[:TopCount]
FirstTop(data) == SubSeq(data, 1, IF Len(data) < TopCount THEN Len(data) ELSE TopCount)

\* line 389
gainers_of(all, period_key) == FirstTop(sorted(all, period_key, TRUE))

\* the losers taken from the end of the list of the gainers
losers_from_tail(all, period_key) ==
    LET sorted_data == sorted(all, period_key, TRUE)
        n == Len(sorted_data)
    IN  SubSeq(sorted_data, IF n < TopCount THEN 1 ELSE n - TopCount + 1, n)

\* line 390: sorted(sorted_data, key=...)[:50]
losers_of(all, period_key) ==
    FirstTop(sorted(sorted(all, period_key, TRUE), period_key, FALSE))

\* lines 398-420: the items of one period and one rank type
ItemsOf(period, rankType, ranked) ==
    [i \in 1..Len(ranked) |->
        [period |-> period, rankType |-> rankType, rank |-> i,
         ticker |-> ranked[i].ticker, returnValue |-> ranked[i][period]]]

GlState(p, data) ==
    /\ gpc = p
    /\ gl_etf_data = data
    /\ all_etfs = << >>
    /\ period_i = 1
    /\ gainers_losers_items = << >>
    /\ gainer_losers = {}
    /\ gl_returned = 0

\* the table holds the rows of an earlier run or none
GlStart(data) ==
    /\ gpc = "prepare"
    /\ gl_etf_data = data
    /\ all_etfs = << >>
    /\ period_i = 1
    /\ gainers_losers_items = << >>
    /\ gainer_losers \in {{}, {[period |-> "ch1w", rankType |-> "gainer", rank |-> 1,
                                ticker |-> 1, returnValue |-> 3]}}
    /\ gl_returned = 0

GlInit == \E data \in GlEtfData : GlStart(data)

GlIdle == GlState("idle", << >>)

\* lines 369-385
PrepareAllEtfs ==
    /\ gpc = "prepare"
    /\ all_etfs' = [t \in 1..Len(gl_etf_data) |->
                      [ticker |-> t,
                       ch1w |-> ReturnOf(gl_etf_data[t]["ch1w"]),
                       ch1m |-> ReturnOf(gl_etf_data[t]["ch1m"])]]
    /\ gpc' = "periods"
    /\ UNCHANGED <<gl_etf_data, period_i, gainers_losers_items, gainer_losers, gl_returned>>
    /\ UNCHANGED <<pc, fetchVars, mainVars, etfVars>>
    /\ UNCHANGED othersOfGl

\* lines 396-420: one iteration of for period in periods
RankPeriod ==
    /\ gpc = "periods"
    /\ period_i <= Len(periods)
    /\ LET period == periods[period_i]
           gainers == gainers_of(all_etfs, period)
           losers == losers_of(all_etfs, period)
       IN  gainers_losers_items' =
              gainers_losers_items \o ItemsOf(period, "gainer", gainers)
                                   \o ItemsOf(period, "loser", losers)
    /\ period_i' = period_i + 1
    /\ UNCHANGED <<gpc, gl_etf_data, all_etfs, gainer_losers, gl_returned>>
    /\ UNCHANGED <<pc, fetchVars, mainVars, etfVars>>
    /\ UNCHANGED othersOfGl

\* lines 422-446: DELETE FROM gainer_losers, the items inserted on the key
\* (period, rankType, rank), commit, return len(gainers_losers_items)
SaveItems ==
    /\ gpc = "periods"
    /\ period_i > Len(periods)
    /\ gainer_losers' = {gainers_losers_items[i] : i \in 1..Len(gainers_losers_items)}
    /\ gl_returned' = Len(gainers_losers_items)
    /\ gpc' = "saved"
    /\ UNCHANGED <<gl_etf_data, all_etfs, period_i, gainers_losers_items>>
    /\ UNCHANGED <<pc, fetchVars, mainVars, etfVars>>
    /\ UNCHANGED othersOfGl

\* lines 448-451: a statement raises, rollback, return 0
SaveItemsFails ==
    /\ gpc = "periods"
    /\ period_i > Len(periods)
    /\ gl_returned' = 0
    /\ gpc' = "failed"
    /\ UNCHANGED <<gl_etf_data, all_etfs, period_i, gainers_losers_items, gainer_losers>>
    /\ UNCHANGED <<pc, fetchVars, mainVars, etfVars>>
    /\ UNCHANGED othersOfGl

GlNext == PrepareAllEtfs \/ RankPeriod \/ SaveItems \/ SaveItemsFails

(***************************************************************************)
(* test_chrome_setup.py : test_chrome_setup and __main__                   *)
(***************************************************************************)
\* lines 78-81
test_sites == <<"SlickCharts", "StockAnalysis">>

\* lines 88-93: the page load timeouts of the strategies
strategies == <<30, 60, 90, 120>>

\* what one strategy can end with: the HTTP check fails (lines 113-116), an
\* exception reaches line 233 (from the navigation or the page analysis),
\* anti-bot text is found (lines 184-194), the content validation fails
\* (lines 229-230), or the table or the content is found (lines 209, 221)
StrategyOutcomes == {"http_fail", "exception", "blocked", "invalid", "ok"}

TsState(p) ==
    /\ tpc = p
    /\ site_i = 1
    /\ strategy_i = 1
    /\ success = FALSE
    /\ attempts = << >>
    /\ sites_failed = {}
    /\ driver_created = FALSE
    /\ printed = << >>
    /\ ts_returned = "none"
    /\ ts_exit_code = None

TsInit == TsState("create")

TsIdle == TsState("idle")

\* lines 62-72, 77-81: the WebDriver is created and set up; an exception goes
\* to line 277-284: return False, and line 288 exits with 1
CreateWebDriver ==
    /\ tpc = "create"
    /\ \E created \in BOOLEAN, set_up \in BOOLEAN :
          /\ driver_created' = created
          /\ IF created /\ set_up
             THEN /\ tpc' = "strategy"
                  /\ UNCHANGED <<printed, ts_returned, ts_exit_code>>
             ELSE /\ tpc' = "exited"
                  /\ printed' = Append(printed, "WebDriver creation failed")
                  /\ ts_returned' = "False"
                  /\ ts_exit_code' = 1
    /\ UNCHANGED <<site_i, strategy_i, success, attempts, sites_failed>>
    /\ UNCHANGED <<pc, fetchVars, mainVars, etfVars>>
    /\ UNCHANGED othersOfTs

\* lines 96-250: one strategy for the site, tried while success is False
TryStrategy ==
    /\ tpc = "strategy"
    /\ strategy_i <= Len(strategies)
    /\ ~success
    /\ \E outcome \in StrategyOutcomes :
          /\ success' = (outcome = "ok")
          /\ attempts' = Append(attempts, outcome)
    /\ strategy_i' = strategy_i + 1
    /\ UNCHANGED <<tpc, site_i, sites_failed, driver_created, printed,
                   ts_returned, ts_exit_code>>
    /\ UNCHANGED <<pc, fetchVars, mainVars, etfVars>>
    /\ UNCHANGED othersOfTs

\* lines 97-98 and 252-267: the loop of the strategies ends; a site without
\* success is reported ("All strategies failed for ...") and the next site
\* is tested
EndSite ==
    /\ tpc = "strategy"
    /\ success \/ strategy_i > Len(strategies)
    /\ sites_failed' = IF success THEN sites_failed
                       ELSE sites_failed \cup {test_sites[site_i]}
    /\ printed' = Append(printed, IF success THEN "working"
                                  ELSE "All strategies failed")
    /\ IF site_i < Len(test_sites)
       THEN /\ site_i' = site_i + 1
            /\ tpc' = "strategy"
       ELSE /\ tpc' = "quit"
            /\ UNCHANGED site_i
    /\ strategy_i' = 1
    /\ success' = FALSE
    /\ attempts' = << >>
    /\ UNCHANGED <<driver_created, ts_returned, ts_exit_code>>
    /\ UNCHANGED <<pc, fetchVars, mainVars, etfVars>>
    /\ UNCHANGED othersOfTs

\* lines 269-275: driver.quit(), "ALL TESTS PASSED", return True, and lines
\* 287-288: exit code 0; an exception of driver.quit() goes to line 277
QuitAndReturn ==
    /\ tpc = "quit"
    /\ \E quit_ok \in BOOLEAN :
          IF quit_ok
          THEN /\ printed' = Append(printed, "ALL TESTS PASSED")
               /\ ts_returned' = "True"
               /\ ts_exit_code' = 0
          ELSE /\ printed' = Append(printed, "WebDriver creation failed")
               /\ ts_returned' = "False"
               /\ ts_exit_code' = 1
    /\ tpc' = "exited"
    /\ UNCHANGED <<site_i, strategy_i, success, attempts, sites_failed, driver_created>>
    /\ UNCHANGED <<pc, fetchVars, mainVars, etfVars>>
    /\ UNCHANGED othersOfTs

TsNext == CreateWebDriver \/ TryStrategy \/ EndSite \/ QuitAndReturn

\* the other scripts are not running
RestIdle == StatIdle /\ CmpIdle /\ YfIdle /\ IxIdle /\ BtIdle /\ NoCallYet /\ GlIdle /\ TsIdle

FetchNext == OuterLoop \/ AttemptFails \/ AttemptSucceeds \/ InnerExit \/ AfterInner

vars == <<pc, fetchVars, mainVars, etfVars, restVars>>

\* fetch_all_announcements alone
InitFetch == pc = "outer" /\ FetchInit /\ MainInit /\ EtfIdle /\ RestIdle
SpecFetch == InitFetch /\ [][FetchNext]_vars

\* any sequence of upsert_record calls on one connection
InitUpsert == pc = "upsert" /\ FetchInit /\ MainInit /\ EtfIdle /\ RestIdle
SpecUpsert == InitUpsert /\ [][UpsertCall]_vars

\* a run of fetch_qdii_report.py
InitQdii == pc = "main" /\ FetchInit /\ MainInit /\ EtfIdle /\ RestIdle
NextQdii == FetchNext \/ MainNext
SpecQdii == InitQdii /\ [][NextQdii]_vars

\* a run of fetch_etf_to_postgresql.py or of fetch_etf_to_dynamodb.py
InitEtf == pc = "idle" /\ FetchInit /\ MainInit /\ EtfInit /\ RestIdle
SpecEtf == InitEtf /\ [][EtfNext]_vars

\* the statistics loop of either ETF script on any list of ETFs
InitStats == pc = "idle" /\ FetchInit /\ MainInit /\ EtfIdle /\ StatInit /\ CmpIdle /\ YfIdle /\ IxIdle /\ BtIdle /\ NoCallYet /\ GlIdle /\ TsIdle
SpecStats == InitStats /\ [][StatsLoop]_vars

\* compare_constituents on any two scrape results
InitCompare == pc = "idle" /\ FetchInit /\ MainInit /\ EtfIdle /\ StatIdle /\ CmpInit /\ YfIdle /\ IxIdle /\ BtIdle /\ NoCallYet /\ GlIdle /\ TsIdle
SpecCompare == InitCompare /\ [][CompareCall]_vars

\* one call of fetch_all_market_data or of fetch_index_data
InitYf == pc = "idle" /\ FetchInit /\ MainInit /\ EtfIdle /\ StatIdle /\ CmpIdle /\ YfInit /\ IxIdle /\ BtIdle /\ NoCallYet /\ GlIdle /\ TsIdle
SpecYf == InitYf /\ [][YfNext]_vars

\* a run of fetch_us_index_constituents.py for one index
InitIndex == pc = "idle" /\ FetchInit /\ MainInit /\ EtfIdle /\ StatIdle /\ CmpIdle /\ YfIdle /\ IxInit /\ BtIdle /\ NoCallYet /\ GlIdle /\ TsIdle
SpecIndex == InitIndex /\ [][IxNext]_vars

\* a call of backtest_strategy of mag7_backtest.py
InitBacktest == pc = "idle" /\ FetchInit /\ MainInit /\ EtfIdle /\ StatIdle /\ CmpIdle /\ YfIdle /\ IxIdle /\ BtInit /\ NoCallYet /\ GlIdle /\ TsIdle
SpecBacktest == InitBacktest /\ [][BtNext]_vars

\* a call of save_gainers_and_losers of fetch_etf_to_postgresql.py
InitGainers == pc = "idle" /\ FetchInit /\ MainInit /\ EtfIdle /\ StatIdle /\ CmpIdle /\ YfIdle /\ IxIdle /\ BtIdle /\ NoCallYet /\ GlInit /\ TsIdle
SpecGainers == InitGainers /\ [][GlNext]_vars

\* a run of test_chrome_setup.py
InitChromeTest == pc = "idle" /\ FetchInit /\ MainInit /\ EtfIdle /\ StatIdle /\ CmpIdle /\ YfIdle /\ IxIdle /\ BtIdle /\ NoCallYet /\ GlIdle /\ TsInit
SpecChromeTest == InitChromeTest /\ [][TsNext]_vars

\* one HTTP request of fetch_all_announcements (line 219)
Request == AttemptFails \/ AttemptSucceeds

(***************************************************************************)
(* C1: once a page request succeeded with an empty aaData list, the        *)
(* function issues no further page request (it treats the empty page as    *)
(* the end of the results and returns what it has).                        *)
(***************************************************************************)
C1_NoRequestAfterEmptyPage == [][sawEmpty => ~Request]_vars

(***************************************************************************)
(* C2: for each page offset at most 5 (max_retries) request attempts are   *)
(* made.                                                                   *)
(***************************************************************************)
C2_AtMostFiveAttemptsPerOffset == reqs <= max_retries

\* the run is over: the script fell off its end, or called exit(1)
Terminated == pc \in {"end", "exit"}

(***************************************************************************)
(* C3: in every run of fetch_qdii_report.py the 'ok' and the 'fail'        *)
(* healthcheck pings are mutually exclusive, and a finished run has sent   *)
(* exactly one of them: 'fail' if and only if it exits with code 1         *)
(* (DATABASE_URL missing, or an exception escaped the processing block).   *)
(***************************************************************************)
C3_ExactlyOnePing ==
    /\ Len(pings) <= 1
    /\ Terminated => /\ Len(pings) = 1
                     /\ (pings[1] = "fail") <=> (exit_code = 1)

\* the processing loop is over and the lines after it were executed
AfterLoop == idx > announcements /\ pc # "process"

\* fewer announcements were fetched than the API reported
FewerThanReported == total_expected # None /\ announcements < total_expected

InSeq(x, seq) == \E i \in 1..Len(seq) : seq[i] = x

(***************************************************************************)
(* C4: once the processing loop is over, whatever the fetch returned, the  *)
(* 'Incomplete Data or Failures' alert is sent if and only if fewer        *)
(* announcements were fetched than the API reported or failed_count > 0,   *)
(* and the 'ok' ping is sent in both cases.                                *)
(***************************************************************************)
C4_AlertAndOkPing ==
    AfterLoop =>
        /\ InSeq("ok", pings)
        /\ InSeq("incomplete", emails) <=> (FewerThanReported \/ failed_count > 0)

(***************************************************************************)
(* C6: when a run reached 'Sync completed' and left the with block         *)
(* normally, the effect of every upsert that returned True is committed:   *)
(* the committed table is the table those upserts produced, whether or not *)
(* other upserts of the run failed with a database error.                  *)
(***************************************************************************)
C6_SuccessfulUpsertsCommitted == pc = "end" => fund_quota = applied

(***************************************************************************)
(* C5: after any sequence of upsert_record calls the table holds at most   *)
(* one row per fund code (an upsert for a stored fund code updates that    *)
(* row and creates no second row).                                         *)
(***************************************************************************)
C5_OneRowPerFundCode ==
    \A r1 \in txn_table, r2 \in txn_table : r1.fund_code = r2.fund_code => r1 = r2

\* main() of an ETF script has returned
Returned == epc = "returned"

\* the steps the exit code is said to report
ReportedSteps == {"existing", "api", "delisted", "upsert", "stats",
                  "new_launch", "gainers"}

(***************************************************************************)
(* C7: the ETF sync main() returns 0 only when every step of the run       *)
(* succeeded (reading the existing tickers, API fetch, delisted archiving, *)
(* ETF upsert, market statistics, new-launch ETFs, gainers/losers), and    *)
(* returns 1 whenever one of these steps failed.                           *)
(***************************************************************************)
C7_ZeroOnlyWhenEveryStepSucceeded ==
    Returned =>
        /\ rc = 0 => steps_failed \cap ReportedSteps = {}
        /\ steps_failed \cap ReportedSteps # {} => rc = 1

\* the pings of a run: start first, then exactly one terminal ping, which is
\* the success ping iff main() returns 0 and the fail ping iff it returns 1
PingsOfRun ==
    /\ Len(hc) = 2
    /\ hc[1] = "start"
    /\ hc[2] \in {"success", "fail"}
    /\ (hc[2] = "success") <=> (rc = 0)
    /\ (hc[2] = "fail") <=> (rc = 1)

\* the return code is decided by the steps alone, not by the delivery of pings
ReturnCodeFromSteps == (rc = 1) <=> (steps_failed \cap FatalSteps(variant) # {})

(***************************************************************************)
(* C8, as stated: every run sends the start ping before any database or    *)
(* API operation and afterwards exactly one terminal ping as its last      *)
(* external action, success iff main() returns 0 and fail iff it returns   *)
(* 1; the delivery of a ping never changes the return code.                *)
(***************************************************************************)
C8_TerminalPingIsLastExternalAction ==
    /\ ~ext_before_start
    /\ Returned =>
          /\ PingsOfRun
          /\ ReturnCodeFromSteps
          /\ ext_after_term = {}

(***************************************************************************)
(* C8, amended: as above, but the terminal ping is the last external       *)
(* action only in the DynamoDB variant; the PostgreSQL variant closes its  *)
(* database connection after the terminal ping, and does nothing else.     *)
(***************************************************************************)
C8_TerminalPingThenClose ==
    /\ ~ext_before_start
    /\ Returned =>
          /\ PingsOfRun
          /\ ReturnCodeFromSteps
          /\ ext_after_term \subseteq (IF variant = "pg" THEN {"db_close"} ELSE {})

\* a PostgreSQL run returned 0 although a ping was not delivered, and closed
\* its connection after the success ping
C8_Witness ==
    /\ Returned
    /\ variant = "pg"
    /\ rc = 0
    /\ undelivered # {}
    /\ hc = <<"start", "success">>
    /\ ext_after_term = {"db_close"}

(***************************************************************************)
(* C9: when a batch write fails in batch_write_to_dynamodb or              *)
(* batch_write_to_postgresql, whatever the error, every record of the      *)
(* failed batch is written again on its own, and the later batches are     *)
(* still processed.                                                        *)
(***************************************************************************)
C9_FailedBatchRetriedPerItem ==
    bw_done =>
        /\ \A b \in failed_batches : BatchItems(items, b) \subseteq retried
        /\ batches_run = 1..total_batches(items)

(***************************************************************************)
(* C10: after the DynamoDB main() returns 0, ETFData holds exactly the     *)
(* tickers of the API answer, whatever it held before the run.             *)
(***************************************************************************)
C10_TableEqualsApiResponse ==
    (Returned /\ variant = "ddb" /\ rc = 0) => ETFData = etf_data

\* the waits the comment of line 188 announces
AnnouncedSchedule == <<5, 10, 20, 40, 80>>

(***************************************************************************)
(* C16: in fetch_all_announcements the waits before the successive retries *)
(* of one page are 5, 10, 20, 40, 80 seconds (the first retry waits 5 s,   *)
(* each later one doubles), and no wait precedes the first attempt.        *)
(***************************************************************************)
C16_BackoffSchedule ==
    /\ (pc = "inner" /\ retry_count = 0) => waits = << >>
    /\ Len(waits) <= Len(AnnouncedSchedule)
    /\ \A i \in 1..Len(waits) : waits[i] = AnnouncedSchedule[i]

\* the tickers the run of main() has to archive: stored at the start and
\* absent from the API answer
DelistedAtStart == ETFData_at_start \ etf_data

(***************************************************************************)
(* C17: in the DynamoDB main() the existing tickers are read before the    *)
(* API is called and the delisted items are copied to DelistedETFs before  *)
(* anything is deleted from ETFData, so every delisted ticker that had an  *)
(* item in ETFData at the start of the run has an item in DelistedETFs     *)
(* when the run returns 0.                                                 *)
(***************************************************************************)
C17_DelistedArchivedOnSuccess ==
    (Returned /\ variant = "ddb" /\ rc = 0) => DelistedAtStart \subseteq DelistedETFs

\* the sum of the 'count' fields of a dictionary
RECURSIVE SumCounts(_)
SumCounts(d) ==
    IF DOMAIN d = {} THEN 0
    ELSE LET k == CHOOSE x \in DOMAIN d : TRUE
         IN  d[k].count + SumCounts([j \in DOMAIN d \ {k} |-> d[j]])

\* the sum of the 'aum' fields of a dictionary
RECURSIVE SumAums(_)
SumAums(d) ==
    IF DOMAIN d = {} THEN 0
    ELSE LET k == CHOOSE x \in DOMAIN d : TRUE
         IN  d[k].aum + SumAums([j \in DOMAIN d \ {k} |-> d[j]])

\* the sum of the values of a dictionary of numbers
RECURSIVE SumValues(_)
SumValues(d) ==
    IF DOMAIN d = {} THEN 0
    ELSE LET k == CHOOSE x \in DOMAIN d : TRUE
         IN  d[k] + SumValues([j \in DOMAIN d \ {k} |-> d[j]])

\* the counts partition the ETFs
CountsPartition ==
    /\ stats.total_etf_count = etfs_seen
    /\ stats.total_etf_count = SumCounts(stats.issuers)
    /\ stats.total_etf_count = SumCounts(stats.leverage_types)
    /\ stats.total_etf_count = SumValues(stats.expense_ratios)
    /\ DOMAIN stats.issuer_leverage = DOMAIN stats.issuers
    /\ \A i \in DOMAIN stats.issuers :
          SumCounts(stats.issuer_leverage[i]) = stats.issuers[i].count

\* the AUM sums partition the total
AumPartition ==
    /\ stats.total_aum = SumAums(stats.issuers)
    /\ stats.total_aum = SumAums(stats.leverage_types)

(***************************************************************************)
(* C11, as stated: for any ETF input total_etf_count is the number of     *)
(* ETFs and the sum of the per-issuer, per-leverage-type and expense-ratio *)
(* counts, every issuer's issuer_leverage counts add up to its count, and  *)
(* total_aum is the sum of the per-issuer and of the per-leverage AUM.     *)
(***************************************************************************)
C11_StatisticsPartitionTotals == CountsPartition /\ AumPartition

\* every AUM sum of the run is a float: the total AUM is below 2^FloatDigits
AumSumsExact == aum_sum <= Pow2(FloatDigits)

(***************************************************************************)
(* C11, amended: the counts partition as stated; total_aum equals both AUM *)
(* sums in the DynamoDB script, which adds Decimals, and in the PostgreSQL *)
(* script, which adds floats, when every sum is exactly a float.           *)
(***************************************************************************)
C11_PartitionUpToFloatRounding ==
    /\ CountsPartition
    /\ (stat_variant = "ddb" \/ AumSumsExact) => AumPartition

\* the PostgreSQL script has seen three ETFs of two issuers and two leverage
\* types with a positive total AUM that is exactly a float
C11_Witness ==
    /\ stat_variant = "pg"
    /\ etfs_seen = 3
    /\ Cardinality(DOMAIN stats.issuers) = 2
    /\ Cardinality(DOMAIN stats.leverage_types) = 2
    /\ stats.total_aum > 0
    /\ AumSumsExact

\* the ranges of the buckets as half-open intervals of hundredths
InRange(bucket, ratio) ==
    CASE bucket = "N/A" -> ratio = None
      [] bucket = "0.00-0.10" -> ratio # None /\ ratio < 10
      [] bucket = "0.10-0.25" -> ratio # None /\ 10 <= ratio /\ ratio < 25
      [] bucket = "0.25-0.50" -> ratio # None /\ 25 <= ratio /\ ratio < 50
      [] bucket = "0.50-1.00" -> ratio # None /\ 50 <= ratio /\ ratio < 100
      [] bucket = "1.00-2.00" -> ratio # None /\ 100 <= ratio /\ ratio < 200
      [] bucket = "2.00+" -> ratio # None /\ ratio >= 200

(***************************************************************************)
(* C12: each ETF is counted in exactly one expense-ratio bucket, 'N/A' iff *)
(* expenseRatio is None and otherwise the bucket whose half-open range     *)
(* holds the ratio, and the PostgreSQL script assigns the same bucket as   *)
(* the DynamoDB script.                                                    *)
(***************************************************************************)
C12_OneBucketPerEtf ==
    /\ SumValues(stats.expense_ratios) = etfs_seen
    /\ etfs_seen > 0 =>
          /\ \A b \in expense_ratio_ranges : InRange(b, last_ratio) <=> b = last_bucket
          /\ expense_ratio_range_pg(last_ratio) = expense_ratio_range_ddb(last_ratio)

\* the PostgreSQL script has just counted a ratio of exactly 0.10
C12_Witness ==
    /\ stat_variant = "pg"
    /\ last_ratio = 10
    /\ last_bucket = "0.10-0.25"
    /\ stats.expense_ratios["0.10-0.25"] = 1

(***************************************************************************)
(* C19: compare_constituents returns True if and only if both inputs are   *)
(* non-empty and the set of non-empty symbols of the SlickCharts data      *)
(* equals that of the StockAnalysis data; a symbol present in only one     *)
(* source makes it return False.                                           *)
(***************************************************************************)
C19_TrueIffSameSymbols ==
    cmp_done =>
        /\ cmp_result <=> /\ ~NotData(cmp_slick)
                          /\ ~NotData(cmp_stock)
                          /\ SymbolSet(cmp_slick) = SymbolSet(cmp_stock)
        /\ (\E s \in ItemSymbols \ {""} :
                (s \in SymbolSet(cmp_slick)) # (s \in SymbolSet(cmp_stock)))
              => ~cmp_result

\* two lists of different lengths with the same symbols were found consistent
C19_Witness ==
    /\ cmp_done
    /\ cmp_result
    /\ Len(cmp_slick.items) # Len(cmp_stock.items)
    /\ SymbolSet(cmp_slick) = {"AAPL"}

\* the consecutive batches of k items of a list, k > 0
RECURSIVE Chunks(_, _)
Chunks(list, k) ==
    IF Len(list) <= k
    THEN IF list = << >> THEN << >> ELSE <<list>>
    ELSE <<SubSeq(list, 1, k)>> \o Chunks(SubSeq(list, k + 1, Len(list)), k)

\* fetch_batch_stock_data has returned its data
BatchFetchReturned == ypc = "returned" /\ yf_result = "data"

(***************************************************************************)
(* C14: ATH price fetching processes the symbols in consecutive batches of *)
(* --ath-batch-size symbols and ratio fetching in consecutive batches of   *)
(* --ratio-batch-size symbols, every symbol being in exactly one batch of  *)
(* each kind.                                                              *)
(***************************************************************************)
C14_BatchesOfRequestedSize ==
    BatchFetchReturned =>
        /\ ath_batches = Chunks(symbols, ath_batch_size)
        /\ ratio_batches = Chunks(symbols, ratio_batch_size)

(***************************************************************************)
(* C20: when use_proxy is true, HTTP_PROXY and HTTPS_PROXY are absent      *)
(* after fetch_index_data returns data, returns None for want of data or   *)
(* returns None after an error, and after fetch_batch_stock_data returns   *)
(* normally or after a failed batch.                                       *)
(***************************************************************************)
C20_ProxyVariablesRemoved ==
    (ypc = "returned" /\ use_proxy /\ yf_result # "no_symbols")
        => environ \cap ProxyVars = {}

(***************************************************************************)
(* C13: when the SlickCharts scrape of an index yields no data, the run    *)
(* keeps the existing data of that index: after                            *)
(* update_dynamodb_with_changes the symbols stored under the index are     *)
(* those stored before the run, for every outcome of the step-1 load and   *)
(* of the step-4 writes.                                                   *)
(***************************************************************************)
C13_ExistingDataKeptOnScrapeFailure ==
    (ipc = "done" /\ "scrape" \in steps_raised)
        => DOMAIN index_table = symbols_at_start

\* the fields the scrape does not supply
KeptFields(c) ==
    <<c.price, c.change, c.ath_price, c.ath_change_percent, c.ratios>>

(***************************************************************************)
(* C18: in scrape_and_compare_constituents, for every symbol present both  *)
(* in the existing data and in the scraped data, the output constituent    *)
(* keeps the existing price, change, ATH fields and financial ratios (as   *)
(* updated in step 2); only no, name, weight and marketCap are taken from  *)
(* the scrape, and the entry in existing_data is not mutated.              *)
(***************************************************************************)
C18_ScrapeKeepsStep2Fields ==
    (ipc \in {"step4", "done"} /\ "scrape" \notin steps_raised) =>
        /\ existing_data = existing_after_step2
        /\ \A s \in DOMAIN existing_after_step2 \cap scraped_symbols :
              /\ KeptFields(updated_data[s]) = KeptFields(existing_after_step2[s])
              /\ updated_data[s].no = "slick"
              /\ updated_data[s].name = "slick"
              /\ updated_data[s].weight = "slick"
              /\ updated_data[s].marketCap \in {"slick", "sa"}

\* a stored symbol whose price and ratios came from yfinance in step 2 was
\* scraped again, with a market cap from StockAnalysis
C18_Witness ==
    /\ ipc = "step4"
    /\ "AAPL" \in DOMAIN existing_after_step2 \cap scraped_symbols
    /\ existing_after_step2["AAPL"].price = "yf"
    /\ existing_after_step2["AAPL"].ratios = "yf"
    /\ existing_after_step2["AAPL"].ath_price = "db"
    /\ updated_data["AAPL"].marketCap = "sa"
    /\ "NVDA" \in scraped_symbols

\* the closes of ticker t on the dates up to and including d
ClosesUpTo(t, d) == {bt_data[t][e] : e \in {e \in BtDates : e <= d}}

RowsOf(table, name) == {r \in table : r.fund_name = name}

(***************************************************************************)
(* C23: for each fund_name the effective_date stored in fund_quota never   *)
(* decreases over any sequence of upsert_record calls: an upsert whose     *)
(* begin_date is earlier than the stored effective_date leaves the whole   *)
(* row unchanged (while still returning success), and an upsert whose      *)
(* begin_date is equal or later replaces fund_company, share_class, quota, *)
(* currency, pdf_id and effective_date but leaves fund_code as first       *)
(* inserted.  Stated for every call that can follow a reachable table,     *)
(* from the table before it to the table after it; share_class and         *)
(* currency follow from fund_name.  A call that is rejected or whose       *)
(* statement fails changes no row.                                         *)
(***************************************************************************)
C23_EffectiveDateNeverDecreases ==
    /\ last_outcome = "stale" => last_ok
    /\ \A code \in Codes \cup {BadCode}, name \in Names, company \in Companies,
          quota \in QuotaTexts, date \in Dates \cup {BadDate}, pdf \in PdfIds,
          dbfail \in BOOLEAN :
          LET r == upsert_record(txn_table, txn_aborted, code, name, company,
                                 quota, date, pdf, dbfail)
              executed == /\ ValidCode(code) /\ ValidDate(date)
                          /\ ~txn_aborted /\ ~dbfail
          IN  /\ r.ok = executed
              /\ ~executed => r.table = txn_table
              /\ \A old \in txn_table :
                    \E new \in r.table :
                       /\ RowsOf(r.table, old.fund_name) = {new}
                       /\ new.effective_date >= old.effective_date
                       /\ new.fund_code = old.fund_code
                       /\ old.fund_name # name => new = old
                       /\ (old.fund_name = name /\ executed) =>
                             IF date < old.effective_date
                             THEN new = old
                             ELSE new = [fund_code |-> old.fund_code,
                                         fund_name |-> name,
                                         fund_company |-> clean_company(company),
                                         quota |-> quota_val(quota),
                                         pdf_id |-> pdf,
                                         effective_date |-> date]

\* a stored fund was upserted again with an earlier begin_date and the call
\* returned success; the table holds a second fund as well
C23_Witness ==
    /\ last_outcome = "stale"
    /\ last_ok
    /\ \E r1 \in txn_table, r2 \in txn_table :
          /\ r1.fund_name # r2.fund_name
          /\ r1.effective_date = MaxDate

\* the items produced for a period and a rank type
ProducedItems(period, rankType) ==
    {gainers_losers_items[i] : i \in {j \in 1..Len(gainers_losers_items) :
        /\ gainers_losers_items[j].period = period
        /\ gainers_losers_items[j].rankType = rankType}}

\* the returns of the ETFs in a period, a missing one counted as 0
ReturnsIn(period) ==
    {IF gl_etf_data[t][period] = << >> THEN 0 ELSE gl_etf_data[t][period][1] :
        t \in 1..Len(gl_etf_data)}

\* min(50, N), with the number of items kept per period in place of 50
ExpectedCount ==
    IF Len(gl_etf_data) < TopCount THEN Len(gl_etf_data) ELSE TopCount

(***************************************************************************)
(* C21: save_gainers_and_losers (PostgreSQL) produces, for each period,    *)
(* exactly min(50, N) gainer items and min(50, N) loser items (N = number  *)
(* of ETFs) with ranks 1..min(50, N) and no repeated (period, rankType,    *)
(* rank) key; gainers are ordered by non-increasing returnValue and losers *)
(* by non-decreasing returnValue, rank 1 gainer having the maximum and     *)
(* rank 1 loser the minimum return of the period (missing returns counted  *)
(* as 0).  The items are those saved when the function returns their       *)
(* number.                                                                 *)
(***************************************************************************)
C21_TopGainersAndLosersPerPeriod ==
    gpc = "saved" =>
        /\ gainer_losers = {gainers_losers_items[i] : i \in 1..Len(gainers_losers_items)}
        /\ gl_returned = Len(gainers_losers_items)
        /\ \A i \in 1..Len(gainers_losers_items), j \in 1..Len(gainers_losers_items) :
              (/\ gainers_losers_items[i].period = gainers_losers_items[j].period
               /\ gainers_losers_items[i].rankType = gainers_losers_items[j].rankType
               /\ gainers_losers_items[i].rank = gainers_losers_items[j].rank) => i = j
        /\ \A k \in 1..Len(gainers_losers_items) :
              /\ gainers_losers_items[k].rankType \in {"gainer", "loser"}
              /\ \E p \in 1..Len(periods) : gainers_losers_items[k].period = periods[p]
        /\ \A p \in 1..Len(periods) :
              LET gainers == ProducedItems(periods[p], "gainer")
                  losers == ProducedItems(periods[p], "loser")
              IN  /\ Cardinality(gainers) = ExpectedCount
                  /\ Cardinality(losers) = ExpectedCount
                  /\ {g.rank : g \in gainers} = 1..ExpectedCount
                  /\ {l.rank : l \in losers} = 1..ExpectedCount
                  /\ \A a \in gainers, b \in gainers :
                        a.rank < b.rank => a.returnValue >= b.returnValue
                  /\ \A a \in losers, b \in losers :
                        a.rank < b.rank => a.returnValue <= b.returnValue
                  /\ \A g \in gainers :
                        g.rank = 1 => \A r \in ReturnsIn(periods[p]) : g.returnValue >= r
                  /\ \A l \in losers :
                        l.rank = 1 => \A r \in ReturnsIn(periods[p]) : l.returnValue <= r
                  /\ \A x \in gainers \cup losers :
                        /\ x.ticker \in 1..Len(gl_etf_data)
                        /\ x.returnValue \in ReturnsIn(periods[p])

\* more ETFs than are kept, with a missing, a negative and a positive return
\* in the first period and equal returns in the second
C21_Witness ==
    /\ gpc = "saved"
    /\ Len(gl_etf_data) = MaxGlEtfs
    /\ gl_etf_data[1]["ch1w"] = << >>
    /\ gl_etf_data[2]["ch1w"] = <<-2>>
    /\ gl_etf_data[3]["ch1w"] = <<3>>
    /\ \A t \in 1..Len(gl_etf_data) : gl_etf_data[t]["ch1m"] = <<3>>
    /\ gl_returned = 2 * Len(periods) * TopCount

(***************************************************************************)
(* C22: test_chrome_setup prints 'ALL TESTS PASSED' and returns True       *)
(* (process exit code 0) only if every target site (SlickCharts and        *)
(* StockAnalysis) succeeded with at least one load strategy; if all        *)
(* strategies failed for some site, or the WebDriver could not be created, *)
(* it returns False (exit code 1).                                         *)
(***************************************************************************)
C22_PassedOnlyIfEverySiteSucceeded ==
    tpc = "exited" =>
        /\ (ts_returned = "True" \/ ts_exit_code = 0
             \/ \E i \in 1..Len(printed) : printed[i] = "ALL TESTS PASSED")
                => sites_failed = {}
        /\ (sites_failed # {} \/ ~driver_created)
                => (ts_returned = "False" /\ ts_exit_code = 1)

====
